---------------------------- MODULE Spec2Model ----------------------------
(***************************************************************************)
(* Client side of the Patched linter integration                           *)
(* (client/src/extension.ts): the validation gate (computeValidate and the *)
(* probe-failed memory), the settings migration engine (class Migration)   *)
(* and the configuration pull of the language client middleware, which     *)
(* runs the migration prompt flow under migrationSemaphore.                *)
(*                                                                         *)
(* JavaScript values are encoded with fixed shapes so that every           *)
(* comparison is between values of one kind:                               *)
(*   boolean | undefined        "true" | "false" | "undefined"             *)
(*   CodeActionsOnSave | undef. [obj, fixAll, patched]; obj = FALSE is     *)
(*                              undefined, fixAll is 'source.fixAll' and   *)
(*                              patched is 'source.fixAll.patched'         *)
(*   array | undefined          [isArray, items]                           *)
(***************************************************************************)
EXTENDS Naturals, Sequences, FiniteSets, TLC

VARIABLES
    config,           \* the scoped configuration store, one value per key and slot
    probeFailed,      \* const probeFailed: Set<string>
    textDocuments,    \* Workspace.textDocuments: the documents open in the editor
    syncedDocuments,  \* const syncedDocuments: Map<string, TextDocument>
    serverDocuments,  \* per uri, the didOpen notifications sent to the server less
                      \* the didClose notifications sent to it
    migration,        \* let migration: Migration | undefined (the process that owns it)
    instances,        \* the live Migration objects, by the process that created them
    notNow,           \* let notNow: boolean
    semaphore,        \* migrationSemaphore: [active, waiting]
    pc,               \* position of every asynchronous task
    items,            \* params.items of every configuration pull
    result,           \* const result: (ConfigurationSettings | null)[] of every pull
    upd,              \* progress of a running Migration.update(): [next, current]
    edits,            \* number of edits the user has made to the settings
    probeHistory,     \* the uris of the 'probe failed' requests received since the
                      \* last configuration change (sinceConfig) and since the last
                      \* configuration or watched file change (sinceReset)
    ev                \* the step just taken: what it did and for whom

vars == <<config, probeFailed, textDocuments, syncedDocuments, serverDocuments, migration,
          instances,
          notNow, semaphore, pc, items, result, upd, edits, probeHistory, ev>>

-----------------------------------------------------------------------------
(* Bounds of the model *)

\* longest params.items of one configuration pull
MaxItems == 2
\* longest params.items of the pull that arrives while another one is running
MaxItemsSecond == 1
\* edits made to the settings by the user while the pulls run
MaxEdits == 1
\* longest patched.workingDirectories list
MaxEntries == 2

-----------------------------------------------------------------------------
(* Values *)

Tri == {"undefined", "true", "false"}

\* the three ConfigurationTarget tiers, in the order update() writes them
Tiers == <<"global", "workspace", "workspaceFolder">>
TierSet == {"global", "workspace", "workspaceFolder"}

Folders == {"f1", "f2"}
\* a slot of the store: the user settings, the workspace settings, one per folder
Slots == {"global", "workspace"} \cup Folders

Languages == {"javascript", "typescript"}

\* the documents of the model; "u3" is a package.json (packageJsonFilter)
Documents ==
    { [uri |-> "u1", languageId |-> "javascript"],
      [uri |-> "u2", languageId |-> "typescript"],
      [uri |-> "u3", languageId |-> "json"] }
Uris == {d.uri : d \in Documents}
PackageJsonUris == {"u3"}
NoUri == "none"

\* Workspace.getWorkspaceFolder(resource)
FolderOf(uri) == IF uri = "u2" THEN "f2" ELSE "f1"

\* the slot a ConfigurationTarget names for a resource
SlotOf(tier, uri) == IF tier = "workspaceFolder" THEN FolderOf(uri) ELSE tier

Undefined == [obj |-> FALSE, fixAll |-> "undefined", patched |-> "undefined"]
EmptyObject == [obj |-> TRUE, fixAll |-> "undefined", patched |-> "undefined"]
CodeActionsOnSaveValues ==
    {Undefined} \cup [obj : {TRUE}, fixAll : Tri, patched : Tri]

NoArray == [isArray |-> FALSE, items |-> <<>>]
Array(s) == [isArray |-> TRUE, items |-> s]

\* an entry of patched.validate: a bare string (isString, the string in language)
\* or a record {language, autoFix}; autoFix = "other" is a value that is no boolean
StringItem(l) == [isString |-> TRUE, language |-> l, autoFix |-> "undefined"]
RecordItem(l, a) == [isString |-> FALSE, language |-> l, autoFix |-> a]

\* a [languageId] section: present or not, with its 'editor.codeActionsOnSave' and
\* with another key of the section (other: "undefined" or its value)
NoSection == [defined |-> FALSE, caos |-> Undefined, other |-> "undefined"]
Section(c) == [defined |-> TRUE, caos |-> c, other |-> "undefined"]

DefaultConfig ==
    [ enable            |-> [s \in Slots |-> "undefined"],
      validate          |-> [s \in Slots |-> NoArray],
      probe             |-> [s \in Slots |-> NoArray],
      autoFixOnSave     |-> [s \in Slots |-> "undefined"],
      codeActionsOnSave |-> [s \in Slots |-> Undefined],
      language          |-> [l \in Languages |-> [s \in Slots |-> NoSection]],
      migration2x       |-> "on",
      enabled           |-> [s \in Slots |-> "undefined"],
      formatEnable      |-> [s \in Slots |-> "undefined"],
      workingDirectories |-> [s \in Slots |-> NoArray] ]

-----------------------------------------------------------------------------
(* The configuration store as the code reads it *)

\* WorkspaceConfiguration.get(key) for a resource: the most specific slot that
\* sets the key decides
GetTri(cfg, key, uri) ==
    IF cfg[key][FolderOf(uri)] # "undefined" THEN cfg[key][FolderOf(uri)]
    ELSE IF cfg[key]["workspace"] # "undefined" THEN cfg[key]["workspace"]
    ELSE cfg[key]["global"]

GetArray(cfg, key, uri) ==
    IF cfg[key][FolderOf(uri)].isArray THEN cfg[key][FolderOf(uri)]
    ELSE IF cfg[key]["workspace"].isArray THEN cfg[key]["workspace"]
    ELSE cfg[key]["global"]

-----------------------------------------------------------------------------
(* Validation gate *)

\* ValidateItem.is(item)
ValidateItemIs(item) ==
    ~item.isString /\ item.autoFix \in Tri

\* computeValidate with the probe-failed check moved in front of the allow-list
computeValidateProbeFirst(doc, cfg, failed) ==
    LET enable == GetTri(cfg, "enable", doc.uri)
        validate == GetArray(cfg, "validate", doc.uri)
        probe == GetArray(cfg, "probe", doc.uri)
    IN  IF enable = "false" THEN "off"
        ELSE IF doc.uri \in failed THEN "off"
        ELSE IF validate.isArray
                /\ \E i \in 1..Len(validate.items) :
                      validate.items[i].language = doc.languageId
                      /\ (validate.items[i].isString \/ ValidateItemIs(validate.items[i]))
             THEN "on"
        ELSE IF probe.isArray
                /\ \E i \in 1..Len(probe.items) : probe.items[i] = doc.languageId
             THEN "probe"
        ELSE "off"

\* function computeValidate(textDocument): Validate
computeValidate(doc, cfg, failed) ==
    LET enable == GetTri(cfg, "enable", doc.uri)
        validate == GetArray(cfg, "validate", doc.uri)
        probe == GetArray(cfg, "probe", doc.uri)
    IN  IF enable = "false"                      \* !config.get('enable', true)
        THEN "off"
        ELSE IF validate.isArray
                /\ \E i \in 1..Len(validate.items) :
                      LET item == validate.items[i]
                      IN  \/ item.isString /\ item.language = doc.languageId
                          \/ ValidateItemIs(item) /\ item.language = doc.languageId
             THEN "on"
        ELSE IF doc.uri \in failed
             THEN "off"
        ELSE IF probe.isArray
                /\ \E i \in 1..Len(probe.items) : probe.items[i] = doc.languageId
             THEN "probe"
        ELSE "off"

-----------------------------------------------------------------------------
(* Migration engine: snapshot *)

\* WorkspaceConfiguration.inspect(key) for a resource
Inspect(cfg, key, uri) ==
    [ defined              |-> TRUE,
      globalValue          |-> cfg[key]["global"],
      workspaceValue       |-> cfg[key]["workspace"],
      workspaceFolderValue |-> cfg[key][FolderOf(uri)] ]

\* workspaceConfig.inspect(`[${language}]`): for a section that no slot sets the
\* editor API may answer undefined (inspectUndefined) or an object of undefined values
InspectLanguage(cfg, language, uri, inspectUndefined) ==
    LET sec == cfg.language[language]
    IN  [ defined              |-> \/ ~inspectUndefined
                                   \/ sec["global"].defined
                                   \/ sec["workspace"].defined
                                   \/ sec[FolderOf(uri)].defined,
          globalValue          |-> sec["global"],
          workspaceValue       |-> sec["workspace"],
          workspaceFolderValue |-> sec[FolderOf(uri)] ]

\* MigrationData.create(inspect); undef is the undefined value of the element type.
\* rewrites is a ghost field: the number of times record() set a flag of the value
MigrationDataCreate(inspect, undef) ==
    IF ~inspect.defined
    THEN [t \in TierSet |-> [value |-> undef, changed |-> FALSE, rewrites |-> 0]]
    ELSE [ global          |->
               [value |-> inspect.globalValue, changed |-> FALSE, rewrites |-> 0],
           workspace       |->
               [value |-> inspect.workspaceValue, changed |-> FALSE, rewrites |-> 0],
           workspaceFolder |->
               [value |-> inspect.workspaceFolderValue, changed |-> FALSE, rewrites |-> 0] ]

\* MigrationData.needsUpdate(data)
MigrationDataNeedsUpdate(data) ==
    data["global"].changed \/ data["workspace"].changed \/ data["workspaceFolder"].changed

\* new Migration(resource); accepted is a ghost field: the user chose 'Yes' for
\* this instance
NewMigration(uri, cfg) ==
    [ resource                 |-> uri,
      codeActionOnSave         |-> MigrationDataCreate(Inspect(cfg, "codeActionsOnSave", uri), Undefined),
      autoFixOnSave            |-> MigrationDataCreate(Inspect(cfg, "autoFixOnSave", uri), "undefined"),
      validate                 |-> MigrationDataCreate(Inspect(cfg, "validate", uri), NoArray),
      workingDirectories       |->
          MigrationDataCreate(Inspect(cfg, "workingDirectories", uri), NoArray),
      languageSpecificSettings |-> <<>>,
      didChangeConfiguration   |-> FALSE,
      accepted                 |-> FALSE ]

-----------------------------------------------------------------------------
(* Migration engine: record() *)

\* the inner record of recordAutoFixOnSave without the explicit opt-out test
RecordAutoFixIgnoringOptOut(elem, setting) ==
    LET value == IF setting.value.obj THEN setting.value ELSE EmptyObject
        autoFix == elem.value = "true"
    IN  IF autoFix
        THEN [ setting |-> [value |-> [value EXCEPT !.patched = elem.value], changed |-> TRUE,
                            rewrites |-> setting.rewrites + 1],
               result  |-> TRUE ]
        ELSE [ setting |-> [value |-> value, changed |-> setting.changed,
                            rewrites |-> setting.rewrites],
               result  |-> value.fixAll = "true" ]

\* the inner record of recordAutoFixOnSave that turns the generic flag on as well
RecordAutoFixSettingGeneric(elem, setting) ==
    IF setting.value.obj /\ setting.value.patched = "false"
    THEN [setting |-> setting, result |-> FALSE]
    ELSE LET value == IF setting.value.obj THEN setting.value ELSE EmptyObject
             autoFix == elem.value = "true"
             sourceFixAll == value.fixAll = "true"
         IN  IF autoFix # sourceFixAll /\ autoFix /\ value.patched = "undefined"
             THEN [ setting |-> [ value   |-> [value EXCEPT !.patched = elem.value,
                                                            !.fixAll = elem.value],
                                  changed |-> TRUE,
                                  rewrites |-> setting.rewrites + 1 ],
                    result  |-> TRUE ]
             ELSE [ setting |-> [value |-> value, changed |-> setting.changed,
                            rewrites |-> setting.rewrites],
                    result  |-> sourceFixAll ]

\* the inner record of recordAutoFixOnSave without the test that the linter-specific
\* flag is absent
RecordAutoFixRewritingSetFlag(elem, setting) ==
    IF setting.value.obj /\ setting.value.patched = "false"
    THEN [setting |-> setting, result |-> FALSE]
    ELSE LET value == IF setting.value.obj THEN setting.value ELSE EmptyObject
             autoFix == elem.value = "true"
             sourceFixAll == value.fixAll = "true"
         IN  IF autoFix # sourceFixAll /\ autoFix
             THEN [ setting |-> [ value    |-> [value EXCEPT !.patched = elem.value],
                                  changed  |-> TRUE,
                                  rewrites |-> setting.rewrites + 1 ],
                    result  |-> elem.value = "true" ]
             ELSE [ setting |-> [ value    |-> value,
                                  changed  |-> setting.changed,
                                  rewrites |-> setting.rewrites ],
                    result  |-> sourceFixAll ]

\* function record(elem, setting) of recordAutoFixOnSave: the migrated setting and
\* the boolean it returns
RecordAutoFix(elem, setting) ==
    IF setting.value.obj /\ setting.value.patched = "false"
    THEN [setting |-> setting, result |-> FALSE]
    ELSE LET value == IF setting.value.obj THEN setting.value ELSE EmptyObject
             autoFix == elem.value = "true"              \* !!elem.value
             sourceFixAll == value.fixAll = "true"       \* !!setting.value['source.fixAll']
         IN  IF autoFix # sourceFixAll /\ autoFix /\ value.patched = "undefined"
             THEN [ setting |-> [ value   |-> [value EXCEPT !.patched = elem.value],
                                  changed |-> TRUE,
                                  rewrites |-> setting.rewrites + 1 ],
                    result  |-> elem.value = "true" ]
             ELSE [ setting |-> [value |-> value, changed |-> setting.changed,
                            rewrites |-> setting.rewrites],
                    result  |-> sourceFixAll ]

\* recordAutoFixOnSave(): the instance with codeActionOnSave migrated
recordAutoFixOnSave(m) ==
    [m EXCEPT !.codeActionOnSave =
        [t \in TierSet |-> RecordAutoFix(m.autoFixOnSave[t], m.codeActionOnSave[t]).setting]]

\* the [boolean, boolean, boolean] recordAutoFixOnSave returns
FixAllOf(m) ==
    [t \in TierSet |-> RecordAutoFix(m.autoFixOnSave[t], m.codeActionOnSave[t]).result]

\* position of a language in languageSpecificSettings (a Map in insertion order),
\* 0 when it has no entry
LanguageIndex(lss, language) ==
    IF \E i \in 1..Len(lss) : lss[i].language = language
    THEN CHOOSE i \in 1..Len(lss) : lss[i].language = language
    ELSE 0

\* getCodeActionsOnSave(language): the MigrationData, the map after the lookup and
\* whether the MigrationData is held by the map
getCodeActionsOnSave(lss, language, cfg, uri, inspectUndefined) ==
    LET i == LanguageIndex(lss, language)
        value == InspectLanguage(cfg, language, uri, inspectUndefined)
        created == MigrationDataCreate(
                       [ defined              |-> TRUE,
                         globalValue          |-> value.globalValue.caos,
                         workspaceValue       |-> value.workspaceValue.caos,
                         workspaceFolderValue |-> value.workspaceFolderValue.caos ],
                       Undefined)
    IN  IF i # 0
        THEN [data |-> lss[i].data, lss |-> lss, index |-> i]
        ELSE IF ~value.defined
        THEN [ data  |-> MigrationDataCreate([defined |-> FALSE], Undefined),
               lss   |-> lss,
               index |-> 0 ]
        ELSE [ data  |-> created,
               lss   |-> Append(lss, [language |-> language, data |-> created]),
               index |-> Len(lss) + 1 ]

\* a record of recordValidate that sets the flag for every opt-out entry, also when
\* the flag is false already
RECURSIVE RecordValidateRewritingAgain(_, _, _, _, _, _, _, _)
RecordValidateRewritingAgain(lss, elem, i, tier, fixAll, cfg, uri, inspectUndefined) ==
    IF ~elem.value.isArray \/ i > Len(elem.value.items)
    THEN lss
    ELSE LET item == elem.value.items[i]
         IN  IF ~item.isString /\ fixAll /\ item.autoFix = "false"
             THEN LET got == getCodeActionsOnSave(lss, item.language, cfg, uri, inspectUndefined)
                      setting == got.data[tier]
                      value == IF setting.value.obj THEN setting.value ELSE EmptyObject
                      migrated == [ value    |-> [value EXCEPT !.patched = "false"],
                                    changed  |-> TRUE,
                                    rewrites |-> setting.rewrites + 1 ]
                      after ==
                          IF got.index = 0
                          THEN got.lss
                          ELSE [got.lss EXCEPT ![got.index].data[tier] = migrated]
                  IN  RecordValidateRewritingAgain(after, elem, i + 1, tier, fixAll, cfg, uri,
                                                   inspectUndefined)
             ELSE RecordValidateRewritingAgain(lss, elem, i + 1, tier, fixAll, cfg, uri,
                                               inspectUndefined)

\* function record(elem, settingAccessor, fixAll) of recordValidate, from entry i on
RECURSIVE RecordValidate(_, _, _, _, _, _, _, _)
RecordValidate(lss, elem, i, tier, fixAll, cfg, uri, inspectUndefined) ==
    IF ~elem.value.isArray \/ i > Len(elem.value.items)
    THEN lss
    ELSE LET item == elem.value.items[i]
         IN  IF ~item.isString /\ fixAll /\ item.autoFix = "false"
             THEN LET got == getCodeActionsOnSave(lss, item.language, cfg, uri, inspectUndefined)
                      setting == got.data[tier]
                      value == IF setting.value.obj THEN setting.value ELSE EmptyObject
                      migrated ==
                          IF value.patched # "false"
                          THEN [value |-> [value EXCEPT !.patched = "false"], changed |-> TRUE,
                                rewrites |-> setting.rewrites + 1]
                          ELSE [value |-> value, changed |-> setting.changed,
                                rewrites |-> setting.rewrites]
                      after ==
                          IF got.index = 0
                          THEN got.lss
                          ELSE [got.lss EXCEPT ![got.index].data[tier] = migrated]
                  IN  RecordValidate(after, elem, i + 1, tier, fixAll, cfg, uri, inspectUndefined)
             ELSE RecordValidate(lss, elem, i + 1, tier, fixAll, cfg, uri, inspectUndefined)

\* a cascade without inheritance: every tier with its own result only
CascadeFixAllOwnResult(fixAll, tier) == fixAll[tier]

\* the fixAll argument of the three calls of record in recordValidate (lines 604 to
\* 606): fixAll[0], fixAll[1] ? fixAll[1] : fixAll[0], and
\* fixAll[2] ? fixAll[2] : (fixAll[1] ? fixAll[1] : fixAll[0])
CascadeFixAll(fixAll, tier) ==
    CASE tier = "global"          -> fixAll["global"]
      [] tier = "workspace"       ->
            IF fixAll["workspace"] THEN fixAll["workspace"] ELSE fixAll["global"]
      [] tier = "workspaceFolder" ->
            IF fixAll["workspaceFolder"] THEN fixAll["workspaceFolder"]
            ELSE IF fixAll["workspace"] THEN fixAll["workspace"] ELSE fixAll["global"]

\* recordValidate(fixAll): the three tiers in turn, each with its cascaded fixAll
recordValidate(m, fixAll, cfg, inspectUndefined) ==
    LET uri == m.resource
        g == RecordValidate(m.languageSpecificSettings, m.validate["global"], 1, "global",
                            CascadeFixAll(fixAll, "global"), cfg, uri, inspectUndefined)
        w == RecordValidate(g, m.validate["workspace"], 1, "workspace",
                            CascadeFixAll(fixAll, "workspace"), cfg, uri, inspectUndefined)
        f == RecordValidate(w, m.validate["workspaceFolder"], 1, "workspaceFolder",
                            CascadeFixAll(fixAll, "workspaceFolder"), cfg, uri,
                            inspectUndefined)
    IN  [m EXCEPT !.languageSpecificSettings = f]

\* a recordWorkingDirectories that marks a list holding a legacy entry (a record
\* with changeProcessCWD) for rewriting, as the lines commented out would
recordWorkingDirectoriesRewriting(m) ==
    [m EXCEPT !.workingDirectories =
        [t \in TierSet |->
            IF /\ @[t].value.isArray
               /\ \E i \in 1..Len(@[t].value.items) : @[t].value.items[i].kind = "legacy"
            THEN [@[t] EXCEPT !.changed = TRUE]
            ELSE @[t]]]

\* recordWorkingDirectories(): the rewrite of the entries is commented out (lines
\* 622 to 633), every element is left as it is
recordWorkingDirectories(m) == m

\* record(): recordAutoFixOnSave, recordValidate, recordWorkingDirectories
Record(m, cfg, inspectUndefined) ==
    recordWorkingDirectories(
        recordValidate(recordAutoFixOnSave(m), FixAllOf(m), cfg, inspectUndefined))

\* needsUpdate()
NeedsUpdate(m) ==
    \/ MigrationDataNeedsUpdate(m.autoFixOnSave)
    \/ MigrationDataNeedsUpdate(m.validate)
    \/ MigrationDataNeedsUpdate(m.codeActionOnSave)
    \/ MigrationDataNeedsUpdate(m.workingDirectories)
    \/ \E i \in 1..Len(m.languageSpecificSettings) :
          MigrationDataNeedsUpdate(m.languageSpecificSettings[i].data)

-----------------------------------------------------------------------------
(* Migration engine: update() *)

FamilyOrder == <<"codeActionsOnSave", "autoFixOnSave", "validate", "workingDirectories">>

\* an update() that writes the per-language slots before the four families
UpdateCallsLanguagesFirst(m) ==
    [k \in 1..(3 * Len(m.languageSpecificSettings)) |->
        [family |-> "language", tier |-> Tiers[((k - 1) % 3) + 1], index |-> ((k - 1) \div 3) + 1]]
    \o
    [k \in 1..(3 * Len(FamilyOrder)) |->
        [ family |-> FamilyOrder[((k - 1) \div 3) + 1],
          tier   |-> Tiers[((k - 1) % 3) + 1],
          index  |-> 0 ]]

\* the calls of _update and _updateLanguageSetting in the order update() makes them
UpdateCalls(m) ==
    [k \in 1..(3 * Len(FamilyOrder)) |->
        [ family |-> FamilyOrder[((k - 1) \div 3) + 1],
          tier   |-> Tiers[((k - 1) % 3) + 1],
          index  |-> 0 ]]
    \o
    [k \in 1..(3 * Len(m.languageSpecificSettings)) |->
        [family |-> "language", tier |-> Tiers[((k - 1) % 3) + 1], index |-> ((k - 1) \div 3) + 1]]

\* newValue.changed of one call
CallChanged(m, w) ==
    CASE w.family = "codeActionsOnSave" -> m.codeActionOnSave[w.tier].changed
      [] w.family = "autoFixOnSave"     -> m.autoFixOnSave[w.tier].changed
      [] w.family = "validate"          -> m.validate[w.tier].changed
      [] w.family = "workingDirectories" -> m.workingDirectories[w.tier].changed
      [] w.family = "language"          ->
            m.languageSpecificSettings[w.index].data[w.tier].changed

\* the store writes update() issues, in order: the calls whose element has changed
PendingWrites(m) ==
    LET IsChanged(w) == CallChanged(m, w)
    IN  SelectSeq(UpdateCalls(m), IsChanged)

NoCurrent == [index |-> 0, value |-> [t \in TierSet |-> NoSection]]

\* const current = this.workspaceConfig.inspect(section), read when the loop over
\* languageSpecificSettings reaches the language of the write that comes next
CurrentFor(m, k, cfg, old) ==
    LET writes == PendingWrites(m)
    IN  IF k > Len(writes) \/ writes[k].family # "language" \/ writes[k].index = old.index
        THEN old
        ELSE LET language == m.languageSpecificSettings[writes[k].index].language
             IN  [ index |-> writes[k].index,
                   value |-> [t \in TierSet |->
                                 cfg.language[language][SlotOf(t, m.resource)]] ]

\* config.update that takes no notice of its target and writes the user settings
ApplyWriteIgnoringTarget(cfg, m, w, current) ==
    CASE w.family = "codeActionsOnSave" ->
            [cfg EXCEPT !.codeActionsOnSave["global"] = m.codeActionOnSave[w.tier].value]
      [] w.family = "autoFixOnSave" ->
            [cfg EXCEPT !.autoFixOnSave["global"] = m.autoFixOnSave[w.tier].value]
      [] w.family = "validate" ->
            [cfg EXCEPT !.validate["global"] = m.validate[w.tier].value]
      [] w.family = "workingDirectories" ->
            [cfg EXCEPT !.workingDirectories["global"] = m.workingDirectories[w.tier].value]
      [] w.family = "language" ->
            LET entry == m.languageSpecificSettings[w.index]
            IN  [cfg EXCEPT !.language[entry.language]["global"] =
                    Section(entry.data[w.tier].value)]

\* a config.update that writes a per-language slot made of the recorded map alone
ApplyWriteWithoutCurrent(cfg, m, w, current) ==
    LET slot == SlotOf(w.tier, m.resource)
    IN  CASE w.family = "codeActionsOnSave" ->
                [cfg EXCEPT !.codeActionsOnSave[slot] = m.codeActionOnSave[w.tier].value]
          [] w.family = "autoFixOnSave" ->
                [cfg EXCEPT !.autoFixOnSave[slot] = m.autoFixOnSave[w.tier].value]
          [] w.family = "validate" ->
                [cfg EXCEPT !.validate[slot] = m.validate[w.tier].value]
          [] w.family = "workingDirectories" ->
                [cfg EXCEPT !.workingDirectories[slot] = m.workingDirectories[w.tier].value]
          [] w.family = "language" ->
                LET entry == m.languageSpecificSettings[w.index]
                IN  [cfg EXCEPT !.language[entry.language][slot] =
                        Section(entry.data[w.tier].value)]

\* the store after config.update(section, value, target) of one write succeeded
ApplyWrite(cfg, m, w, current) ==
    LET slot == SlotOf(w.tier, m.resource)
    IN  CASE w.family = "codeActionsOnSave" ->
                [cfg EXCEPT !.codeActionsOnSave[slot] = m.codeActionOnSave[w.tier].value]
          [] w.family = "autoFixOnSave" ->
                [cfg EXCEPT !.autoFixOnSave[slot] = m.autoFixOnSave[w.tier].value]
          [] w.family = "validate" ->
                [cfg EXCEPT !.validate[slot] = m.validate[w.tier].value]
          [] w.family = "workingDirectories" ->
                [cfg EXCEPT !.workingDirectories[slot] = m.workingDirectories[w.tier].value]
          [] w.family = "language" ->
                \* settings = current?.<tier>Value, or a new object, with its
                \* 'editor.codeActionsOnSave' replaced by newValue.value
                LET entry == m.languageSpecificSettings[w.index]
                IN  [cfg EXCEPT !.language[entry.language][slot] =
                        [ defined |-> TRUE,
                          caos    |-> entry.data[w.tier].value,
                          other   |-> current.value[w.tier].other ]]

\* update() with its writes k to n succeeding one after the other: the store left
RECURSIVE ApplyWrites(_, _, _, _, _)
ApplyWrites(cfg, m, k, n, current) ==
    IF k > n
    THEN cfg
    ELSE LET cur == CurrentFor(m, k, cfg, current)
         IN  ApplyWrites(ApplyWrite(cfg, m, PendingWrites(m)[k], cur), m, k + 1, n, cur)

-----------------------------------------------------------------------------
(* Events of the editor *)

Batches == {"b1", "b2"}
Command == "cmd"
Procs == Batches \cup {Command}
None == "none"

\* stands for "no Migration was recorded in this step"
NoMigration == NewMigration(NoUri, DefaultConfig)

\* the step just taken
Ev(op, who) ==
    [ op          |-> op,        \* the operation
      who         |-> who,       \* the task it belongs to
      forwarded   |-> 0,         \* didChangeConfiguration notifications sent to the server
      invoked     |-> FALSE,     \* update() called the captured continuation
      write       |-> "none",    \* the store write attempted: "ok", "failed" or "none"
      key         |-> "none",    \* the key that write was for
      tier        |-> "none",    \* the tier that write was for
      index       |-> 0,         \* the position of its language in languageSpecificSettings
      constructed |-> FALSE,     \* the configuration pull constructed a Migration
      prompted    |-> FALSE,     \* the modal prompt was opened
      choice      |-> "none",    \* the user's answer to the prompt
      sent        |-> FALSE,     \* the document message of the step was passed to next
      error       |-> FALSE,     \* migrationFailed showed its error notification
      recorded    |-> NoMigration ]  \* the Migration as record() or update() left it in this step

\* Workspace.onDidChangeConfiguration listener of realActivate: the documents
\* synchronized after it ran (probeFailed is empty by then)
SyncedAfterChange(cfg, synced, open) ==
    {d \in synced : computeValidate(d, cfg, {}) # "off"}
    \cup {d \in open : computeValidate(d, cfg, {}) # "off"}

\* the documents the listener closes on the server: first loop, lines 838 to 843
ListenerClosed(cfg, synced) ==
    {d \in synced : computeValidate(d, cfg, {}) = "off"}

\* a second loop that takes no notice of the documents already synchronized
ListenerOpenedAgain(cfg, synced, open) ==
    {d \in open : computeValidate(d, cfg, {}) # "off"}

\* the documents the listener opens on the server: second loop, lines 844 to 849
ListenerOpened(cfg, synced, open) ==
    {d \in open : d \notin synced /\ computeValidate(d, cfg, {}) # "off"}

\* the server's count of an uri after didClose for closed and didOpen for opened
ServerAfter(server, closed, opened) ==
    [u \in DOMAIN server |->
        server[u] - (IF \E d \in closed : d.uri = u THEN 1 ELSE 0)
                  + (IF \E d \in opened : d.uri = u THEN 1 ELSE 0)]

\* middleware.workspace.didChangeConfiguration with no sections: captured by the
\* Migration in progress, or else forwarded with next(sections)
CaptureInstances(inst, owner) ==
    IF owner # None
    THEN [inst EXCEPT ![owner].didChangeConfiguration = TRUE]
    ELSE inst

ForwardedNow(owner) == IF owner # None THEN 0 ELSE 1

-----------------------------------------------------------------------------
(* Settings projection *)

NullEntry == [kind |-> "null", scopeUri |-> NoUri, validate |-> "off"]

\* paths are sequences of characters; path.sep is "/"
Sep == "/"
\* document.uri.fsPath of the documents and workspaceFolder.uri.fsPath
FsPath(uri) ==
    CASE uri = "u1" -> <<"/", "a", "/", "b", "/", "c">>
      [] uri = "u2" -> <<"/", "b", "/", "a">>
      [] OTHER      -> <<"/", "a", "/", "p">>
FolderPath(folder) == IF folder = "f2" THEN <<"/", "b">> ELSE <<"/", "a">>

\* String.prototype.startsWith
StartsWith(str, prefix) ==
    /\ Len(prefix) <= Len(str)
    /\ SubSeq(str, 1, Len(prefix)) = prefix

\* path.isAbsolute
IsAbsolute(p) == Len(p) > 0 /\ p[1] = Sep

\* path.join(workspaceFolderPath, directory) for a relative directory that has no
\* "." or ".." segment
PathJoin(base, p) == IF p = <<>> THEN base ELSE base \o <<Sep>> \o p

\* toOSPath of utils where path.sep is "/"
toOSPath(p) == p

\* the entries of patched.workingDirectories: a string, a LegacyDirectoryItem
\* {directory, changeProcessCWD}, a DirectoryItem {directory, '!cwd'?} or a ModeItem
StringEntry(dir) == [kind |-> "string", directory |-> dir, flag |-> "undefined"]
LegacyEntry(dir, cwd) == [kind |-> "legacy", directory |-> dir, flag |-> cwd]
DirectoryEntry(dir, nocwd) == [kind |-> "directory", directory |-> dir, flag |-> nocwd]
ModeEntry == [kind |-> "mode", directory |-> <<>>, flag |-> "undefined"]

NoWorkingDirectory == [kind |-> "undefined", directory |-> <<>>, noCWD |-> FALSE]
ModeWorkingDirectory == [kind |-> "mode", directory |-> <<>>, noCWD |-> FALSE]

\* noCWD of one entry (lines 1067 to 1077)
NoCWDOf(entry) ==
    CASE entry.kind = "legacy"    -> entry.flag # "true"      \* !entry.changeProcessCWD
      [] entry.kind = "directory" -> entry.flag = "true"      \* entry['!cwd'] when defined
      [] OTHER                    -> FALSE

\* itemValue of a directory entry (lines 1090 to 1102): the directory made absolute,
\* ending in the separator, when the file path starts with it
ItemValue(entry, filePath, workspaceFolderPath) ==
    LET os == toOSPath(entry.directory)
        absolute == IF ~IsAbsolute(os) THEN PathJoin(workspaceFolderPath, os) ELSE os
        directory == IF absolute = <<>> \/ absolute[Len(absolute)] # Sep
                     THEN absolute \o <<Sep>>
                     ELSE absolute
    IN  IF StartsWith(filePath, directory) THEN directory ELSE <<>>

\* a loop in which the entry that matches last wins
RECURSIVE ResolveWorkingDirectoryLastMatch(_, _, _, _, _)
ResolveWorkingDirectoryLastMatch(entries, i, workingDirectory, filePath, workspaceFolderPath) ==
    IF i > Len(entries)
    THEN workingDirectory
    ELSE LET entry == entries[i]
             itemValue == ItemValue(entry, filePath, workspaceFolderPath)
             next ==
                 IF entry.kind = "mode"
                 THEN ModeWorkingDirectory
                 ELSE IF itemValue = <<>>
                 THEN workingDirectory
                 ELSE [kind |-> "directory", directory |-> itemValue, noCWD |-> NoCWDOf(entry)]
         IN  ResolveWorkingDirectoryLastMatch(entries, i + 1, next, filePath, workspaceFolderPath)

\* a loop in which an entry that matches as long as the one kept replaces it
RECURSIVE ResolveWorkingDirectoryTieToLast(_, _, _, _, _)
ResolveWorkingDirectoryTieToLast(entries, i, workingDirectory, filePath, workspaceFolderPath) ==
    IF i > Len(entries)
    THEN workingDirectory
    ELSE LET entry == entries[i]
             itemValue == ItemValue(entry, filePath, workspaceFolderPath)
             next ==
                 IF entry.kind = "mode"
                 THEN ModeWorkingDirectory
                 ELSE IF itemValue = <<>>
                 THEN workingDirectory
                 ELSE IF workingDirectory.kind # "directory"
                 THEN [kind |-> "directory", directory |-> itemValue, noCWD |-> NoCWDOf(entry)]
                 ELSE IF Len(workingDirectory.directory) <= Len(itemValue)
                 THEN [kind |-> "directory", directory |-> itemValue, noCWD |-> NoCWDOf(entry)]
                 ELSE workingDirectory
         IN  ResolveWorkingDirectoryTieToLast(entries, i + 1, next, filePath,
                                              workspaceFolderPath)

\* the loop over workingDirectories (lines 1064 to 1130) from entry i on
RECURSIVE ResolveWorkingDirectory(_, _, _, _, _)
ResolveWorkingDirectory(entries, i, workingDirectory, filePath, workspaceFolderPath) ==
    IF i > Len(entries)
    THEN workingDirectory
    ELSE LET entry == entries[i]
             itemValue == ItemValue(entry, filePath, workspaceFolderPath)
             next ==
                 IF entry.kind = "mode"
                 THEN ModeWorkingDirectory
                 ELSE IF itemValue = <<>>
                 THEN workingDirectory
                 ELSE IF workingDirectory.kind # "directory"
                 THEN [kind |-> "directory", directory |-> itemValue, noCWD |-> NoCWDOf(entry)]
                 ELSE IF Len(workingDirectory.directory) < Len(itemValue)
                 THEN [kind |-> "directory", directory |-> itemValue, noCWD |-> NoCWDOf(entry)]
                 ELSE workingDirectory
         IN  ResolveWorkingDirectory(entries, i + 1, next, filePath, workspaceFolderPath)

\* the [languageId] section in effect for a resource
GetSection(cfg, language, uri) ==
    LET sec == cfg.language[language]
    IN  IF sec[FolderOf(uri)].defined THEN sec[FolderOf(uri)]
        ELSE IF sec["workspace"].defined THEN sec["workspace"]
        ELSE sec["global"]

\* editor.codeActionsOnSave in effect for a resource
GetCodeActionsOnSave(cfg, uri) ==
    IF cfg.codeActionsOnSave[FolderOf(uri)].obj THEN cfg.codeActionsOnSave[FolderOf(uri)]
    ELSE IF cfg.codeActionsOnSave["workspace"].obj THEN cfg.codeActionsOnSave["workspace"]
    ELSE cfg.codeActionsOnSave["global"]

\* codeActionsOnSave['source.fixAll.patched'] ?? codeActionsOnSave['source.fixAll']
FlagOf(caos) == IF caos.patched # "undefined" THEN caos.patched ELSE caos.fixAll

\* a readCodeActionsOnSaveSetting that asks the editor-wide map first
readCodeActionsOnSaveSettingEditorFirst(doc, cfg) ==
    LET languageConfig ==
            IF doc.languageId \in Languages
            THEN GetSection(cfg, doc.languageId, doc.uri)
            ELSE NoSection
        editor == GetCodeActionsOnSave(cfg, doc.uri)
        first == IF editor.obj THEN FlagOf(editor) ELSE "undefined"
        flag == IF first # "undefined" THEN first
                ELSE IF languageConfig.defined /\ languageConfig.caos.obj
                THEN FlagOf(languageConfig.caos)
                ELSE "undefined"
    IN  flag = "true"

\* readCodeActionsOnSaveSetting(document)
readCodeActionsOnSaveSetting(doc, cfg) ==
    LET languageConfig ==
            IF doc.languageId \in Languages
            THEN GetSection(cfg, doc.languageId, doc.uri)
            ELSE NoSection
        first == IF languageConfig.defined /\ languageConfig.caos.obj
                 THEN FlagOf(languageConfig.caos)
                 ELSE "undefined"
        editor == GetCodeActionsOnSave(cfg, doc.uri)
        flag == IF first # "undefined" THEN first
                ELSE IF editor.obj THEN FlagOf(editor)
                ELSE "undefined"
    IN  flag = "true"

\* the ConfigurationSettings of one item (lines 1021 to 1133)
BuildSettings(uri, cfg, synced, failed) ==
    IF ~\E d \in synced : d.uri = uri
    THEN [ kind             |-> "settings",
           scopeUri         |-> uri,
           validate         |-> "off",
           format           |-> FALSE,
           codeActionOnSave |-> FALSE,
           workspaceFolder  |-> None,
           workingDirectory |-> NoWorkingDirectory ]
    ELSE LET document == CHOOSE d \in synced : d.uri = uri
             validate == IF GetTri(cfg, "enabled", uri) # "false"
                         THEN computeValidate(document, cfg, failed)
                         ELSE "off"
             workingDirectories == GetArray(cfg, "workingDirectories", uri)
         IN  [ kind             |-> "settings",
               scopeUri         |-> uri,
               validate         |-> validate,
               format           |-> validate # "off" /\ GetTri(cfg, "formatEnable", uri) = "true",
               codeActionOnSave |-> validate # "off" /\ readCodeActionsOnSaveSetting(document, cfg),
               workspaceFolder  |-> FolderOf(uri),
               workingDirectory |->
                   IF workingDirectories.isArray
                   THEN ResolveWorkingDirectory(workingDirectories.items, 1, NoWorkingDirectory,
                                                FsPath(uri), FolderPath(FolderOf(uri)))
                   ELSE NoWorkingDirectory ]

\* item.section || !item.scopeUri
IsNullItem(item) == item.section \/ item.scopeUri = NoUri

\* the entries pushed for the items from index i up to the next item that takes
\* the lock
RECURSIVE NullRun(_, _)
NullRun(its, i) ==
    IF i > Len(its) \/ ~IsNullItem(its[i])
    THEN <<>>
    ELSE <<NullEntry>> \o NullRun(its, i + 1)

Remove(f, p) == [q \in (DOMAIN f) \ {p} |-> f[q]]
Put(f, p, v) == [q \in (DOMAIN f) \cup {p} |-> IF q = p THEN v ELSE f[q]]

-----------------------------------------------------------------------------
(* Document events and the probe-failed memory *)

\* Languages.match(packageJsonFilter, document) || Languages.match(configFileFilter, document)
MatchesFileFilter(d) == d.uri \in PackageJsonUris

\* the editor opens a document: middleware.didOpen
DidOpen(d) ==
    /\ d \notin textDocuments
    /\ textDocuments' = textDocuments \cup {d}
    /\ syncedDocuments' =
          IF MatchesFileFilter(d) \/ computeValidate(d, config, probeFailed) # "off"
          THEN syncedDocuments \cup {d}
          ELSE syncedDocuments
    /\ serverDocuments' =
          IF MatchesFileFilter(d) \/ computeValidate(d, config, probeFailed) # "off"
          THEN ServerAfter(serverDocuments, {}, {d})
          ELSE serverDocuments
    /\ ev' = [Ev("didOpen", d.uri) EXCEPT
                 !.sent = MatchesFileFilter(d) \/ computeValidate(d, config, probeFailed) # "off"]
    /\ UNCHANGED <<config, probeFailed, probeHistory, migration, instances, notNow, semaphore, pc,
                   items, result, upd, edits>>

\* the editor closes a document: middleware.didClose
DidClose(d) ==
    /\ d \in textDocuments
    /\ textDocuments' = textDocuments \ {d}
    /\ syncedDocuments' = syncedDocuments \ {d}
    /\ serverDocuments' = ServerAfter(serverDocuments, syncedDocuments \cap {d}, {})
    /\ ev' = [Ev("didClose", d.uri) EXCEPT !.sent = d \in syncedDocuments]
    /\ UNCHANGED <<config, probeFailed, probeHistory, migration, instances, notNow, semaphore, pc,
                   items, result, upd, edits>>

\* the messages of a document that the middleware passes on only for a
\* synchronized document
DocumentMessages == {"didChange", "willSave", "didSave", "provideCodeActions"}

\* middleware.didChange, willSave, didSave and provideCodeActions for an open
\* document; wanted: the tests of provideCodeActions on context let the request pass
DocumentMessage(d, kind, wanted) ==
    /\ d \in textDocuments
    /\ ev' = [Ev(kind, d.uri) EXCEPT
                 !.sent = d \in syncedDocuments /\ (kind = "provideCodeActions" => wanted)]
    /\ UNCHANGED <<config, probeFailed, probeHistory, textDocuments, syncedDocuments,
                   serverDocuments, migration, instances, notNow, semaphore, pc, items,
                   result, upd, edits>>

\* a handler that closes the document but does not remember the uri
ProbeFailedRequestNotRemembered(u) ==
    /\ probeFailed' = probeFailed
    /\ probeHistory' = [ sinceConfig |-> probeHistory.sinceConfig \cup {u},
                         sinceReset  |-> probeHistory.sinceReset \cup {u} ]
    /\ syncedDocuments' = {d \in syncedDocuments : ~(d \in textDocuments /\ d.uri = u)}
    /\ serverDocuments' =
          ServerAfter(serverDocuments,
                      {d \in syncedDocuments : d \in textDocuments /\ d.uri = u}, {})
    /\ ev' = [Ev("probeFailed", u) EXCEPT
                 !.sent = \E d \in syncedDocuments : d \in textDocuments /\ d.uri = u]
    /\ UNCHANGED <<config, textDocuments, migration, instances, notNow, semaphore, pc,
                   items, result, upd, edits>>

\* client.onRequest(ProbeFailedRequest.type, ...): the uri is remembered and the
\* close provider is run for the open document of that uri
ProbeFailedRequest(u) ==
    /\ probeFailed' = probeFailed \cup {u}
    /\ probeHistory' = [ sinceConfig |-> probeHistory.sinceConfig \cup {u},
                         sinceReset  |-> probeHistory.sinceReset \cup {u} ]
    /\ syncedDocuments' = {d \in syncedDocuments : ~(d \in textDocuments /\ d.uri = u)}
    /\ serverDocuments' =
          ServerAfter(serverDocuments,
                      {d \in syncedDocuments : d \in textDocuments /\ d.uri = u}, {})
    /\ ev' = [Ev("probeFailed", u) EXCEPT
                 !.sent = \E d \in syncedDocuments : d \in textDocuments /\ d.uri = u]
    /\ UNCHANGED <<config, textDocuments, migration, instances, notNow, semaphore, pc,
                   items, result, upd, edits>>

\* a didChangeWatchedFile that forwards the event and keeps the probe failures
DidChangeWatchedFileKeepingFailures ==
    /\ probeHistory' = [probeHistory EXCEPT !.sinceReset = {}]
    /\ ev' = Ev("didChangeWatchedFile", "env")
    /\ UNCHANGED <<config, probeFailed, textDocuments, syncedDocuments, serverDocuments, migration, instances,
                   notNow, semaphore, pc, items, result, upd, edits>>

\* middleware.workspace.didChangeWatchedFile
DidChangeWatchedFile ==
    /\ probeFailed' = {}
    /\ probeHistory' = [probeHistory EXCEPT !.sinceReset = {}]
    /\ ev' = Ev("didChangeWatchedFile", "env")
    /\ UNCHANGED <<config, textDocuments, syncedDocuments, serverDocuments, migration, instances, notNow,
                   semaphore, pc, items, result, upd, edits>>

\* the Workspace.onDidChangeConfiguration listener of realActivate, run when the
\* store has become cfg
ListenerRan(cfg) ==
    /\ config' = cfg
    /\ probeFailed' = {}
    /\ probeHistory' = [sinceConfig |-> {}, sinceReset |-> {}]
    /\ syncedDocuments' = SyncedAfterChange(cfg, syncedDocuments, textDocuments)
    /\ serverDocuments' =
          ServerAfter(serverDocuments, ListenerClosed(cfg, syncedDocuments),
                      ListenerOpened(cfg, syncedDocuments, textDocuments))

\* the lists the gate settings are drawn from
ValidateLists ==
    { NoArray, Array(<<>>),
      Array(<<StringItem("javascript")>>),
      Array(<<RecordItem("typescript", "false")>>),
      Array(<<RecordItem("javascript", "other")>>),
      Array(<<StringItem("json"), RecordItem("javascript", "undefined")>>) }
ProbeLists ==
    { NoArray,
      [isArray |-> TRUE, items |-> <<"javascript">>],
      [isArray |-> TRUE, items |-> <<"typescript", "javascript">>] }

\* the user changes patched.enable, patched.validate or patched.probe
ChangeGateSetting ==
    /\ \E cfg \in
          {[config EXCEPT !.enable[s] = v] : s \in {"workspace", "f1"}, v \in Tri}
          \cup {[config EXCEPT !.validate["workspace"] = v] : v \in ValidateLists}
          \cup {[config EXCEPT !.probe["workspace"] = v] : v \in ProbeLists} :
          /\ cfg # config
          /\ ListenerRan(cfg)
    /\ instances' = CaptureInstances(instances, migration)
    /\ ev' = [Ev("didChangeConfiguration", "env") EXCEPT
                 !.forwarded = ForwardedNow(migration), !.write = "ok", !.key = "gate"]
    /\ UNCHANGED <<textDocuments, migration, notNow, semaphore, pc, items, result, upd,
                   edits>>

-----------------------------------------------------------------------------
(* Configuration pull: middleware.workspace.configuration *)

\* the items a pull may name
Items ==
    { [scopeUri |-> "u1", section |-> FALSE],
      [scopeUri |-> "u2", section |-> FALSE],
      [scopeUri |-> NoUri, section |-> FALSE],
      [scopeUri |-> "u1", section |-> TRUE] }
ItemSeqs == UNION {[1..n -> Items] : n \in 0..MaxItems}
ItemSeqsSecond == UNION {[1..n -> Items] : n \in 0..MaxItemsSecond}

\* Semaphore.lock(thunk) of utils: the thunk joins the queue of waiting thunks
SemaphoreLock(waiting, b) == Append(waiting, b)

\* the semaphore runs the thunk that waited longest when none is active
SemaphoreCanRun(b) ==
    /\ semaphore.active = None
    /\ semaphore.waiting # <<>>
    /\ Head(semaphore.waiting) = b

\* the test of the thunk without the session flag
MigrationWantedIgnoringNotNow == config.migration2x = "on"

\* notNow === false && globalMigration === 'on'
MigrationWanted == notNow = FALSE /\ config.migration2x = "on"

\* the loop of the pull from its first item to the first lock() or to the return
PullRequest(b, its) ==
    /\ pc[b] = "idle"
    /\ items' = [items EXCEPT ![b] = its]
    /\ LET res == NullRun(its, 1)
           more == Len(res) < Len(its)
       IN  /\ result' = [result EXCEPT ![b] = res]
           /\ pc' = [pc EXCEPT ![b] = IF more THEN "waiting" ELSE "done"]
           /\ semaphore' = [semaphore EXCEPT !.waiting =
                               IF more THEN SemaphoreLock(@, b) ELSE @]
    /\ ev' = Ev("configuration", b)
    /\ UNCHANGED <<config, probeFailed, probeHistory, textDocuments, syncedDocuments, serverDocuments, migration,
                   instances, notNow, upd, edits>>

\* the thunk of b is over: the semaphore is free and lock() resolves; waiting is
\* the queue left. The code after lock() has not run yet
ThunkEnd(b, waiting) ==
    /\ pc' = [pc EXCEPT ![b] = "settings"]
    /\ semaphore' = [active |-> None, waiting |-> waiting]
    /\ UNCHANGED result

\* no pull has its continuation of lock() outstanding
NoContinuationPending == \A b \in Batches : pc[b] # "settings"

\* the code after lock() resolved (lines 1021 to 1133 and the loop up to the next
\* lock() or the return): the settings record of the item is pushed
AfterLock(b) ==
    /\ pc[b] = "settings"
    /\ LET its == items[b]
           i == Len(result[b]) + 1
           res == Append(result[b],
                         BuildSettings(its[i].scopeUri, config, syncedDocuments, probeFailed))
                  \o NullRun(its, i + 1)
           more == Len(res) < Len(its)
       IN  /\ result' = [result EXCEPT ![b] = res]
           /\ pc' = [pc EXCEPT ![b] = IF more THEN "waiting" ELSE "done"]
           /\ semaphore' = [semaphore EXCEPT !.waiting =
                               IF more THEN SemaphoreLock(@, b) ELSE @]
    /\ ev' = Ev("settings", b)
    /\ UNCHANGED <<config, probeFailed, probeHistory, textDocuments, syncedDocuments, serverDocuments, migration,
                   instances, notNow, items, upd, edits>>

\* the thunk of one item starts: new Migration, record(), needsUpdate() and either
\* the modal prompt or the end of the thunk
ThunkStart(b) ==
    /\ pc[b] = "waiting"
    /\ SemaphoreCanRun(b)
    /\ LET uri == items[b][Len(result[b]) + 1].scopeUri
           waiting == Tail(semaphore.waiting)
       IN  \E inspectUndefined \in BOOLEAN :
              LET m == Record(NewMigration(uri, config), config, inspectUndefined)
              IN  IF MigrationWanted /\ NeedsUpdate(m)
                  THEN /\ migration' = b
                       /\ instances' = Put(instances, b, m)
                       /\ semaphore' = [active |-> b, waiting |-> waiting]
                       /\ pc' = [pc EXCEPT ![b] = "prompt"]
                       /\ ev' = [Ev("thunk", b) EXCEPT !.constructed = TRUE,
                                                        !.prompted = TRUE,
                                                        !.recorded = m]
                       /\ UNCHANGED result
                  ELSE /\ migration' = None
                       /\ instances' = instances
                       /\ ThunkEnd(b, waiting)
                       /\ ev' = [Ev("thunk", b) EXCEPT
                                    !.constructed = MigrationWanted,
                                    !.recorded = IF MigrationWanted THEN m ELSE NoMigration]
    /\ UNCHANGED <<config, probeFailed, probeHistory, textDocuments, syncedDocuments, serverDocuments, notNow, items,
                   upd, edits>>

Choices == {"yes", "global", "readme", "no", "undefined"}

\* selected.id === 'yes' with 'Not now' taken for an acceptance as well
AcceptsNotNow(choice) == choice \in {"yes", "no"}

\* selected.id === 'yes'
Accepts(choice) == choice = "yes"

\* the user answers the modal prompt (undefined: it went away with no item chosen)
PromptAnswer(b, choice) ==
    /\ pc[b] = "prompt"
    /\ ev' = [Ev("answer", b) EXCEPT !.choice = choice]
    /\ CASE Accepts(choice) ->
              /\ pc' = [pc EXCEPT ![b] = "update"]
              /\ instances' = [instances EXCEPT ![b].accepted = (choice = "yes")]
              /\ upd' = [upd EXCEPT ![b] =
                            [next |-> 1, current |-> CurrentFor(instances[b], 1, config, NoCurrent)]]
              /\ UNCHANGED <<migration, notNow, semaphore, result>>
         [] ~Accepts(choice) /\ choice = "global" ->
              /\ pc' = [pc EXCEPT ![b] = "globalWrite"]
              /\ UNCHANGED <<migration, instances, notNow, semaphore, result, upd>>
         [] ~Accepts(choice) /\ choice \in {"no", "readme"} ->
              /\ notNow' = TRUE
              /\ migration' = None
              /\ instances' = Remove(instances, b)
              /\ ThunkEnd(b, semaphore.waiting)
              /\ UNCHANGED upd
         [] ~Accepts(choice) /\ choice = "undefined" ->
              /\ migration' = None
              /\ instances' = Remove(instances, b)
              /\ ThunkEnd(b, semaphore.waiting)
              /\ UNCHANGED <<notNow, upd>>
    /\ UNCHANGED <<config, probeFailed, probeHistory, textDocuments, syncedDocuments, serverDocuments, items, edits>>

\* await config.update('migration.2_x', 'off', ConfigurationTarget.Global) settles;
\* a rejection leaves the thunk, lock() and the pull with it
GlobalWrite(b) ==
    /\ pc[b] = "globalWrite"
    /\ \/ /\ ListenerRan([config EXCEPT !.migration2x = "off"])
          /\ ev' = [Ev("globalWrite", b) EXCEPT !.forwarded = ForwardedNow(migration),
                                                !.write = "ok", !.key = "migration.2_x"]
          /\ migration' = None
          /\ instances' = Remove(instances, b)
          /\ ThunkEnd(b, semaphore.waiting)
       \/ /\ ev' = [Ev("globalWrite", b) EXCEPT !.write = "failed", !.key = "migration.2_x"]
          /\ migration' = None
          /\ instances' = Remove(instances, b)
          /\ pc' = [pc EXCEPT ![b] = "rejected"]
          /\ semaphore' = [semaphore EXCEPT !.active = None]
          /\ UNCHANGED <<config, probeFailed, probeHistory, syncedDocuments, serverDocuments, result>>
    /\ UNCHANGED <<textDocuments, notNow, items, upd, edits>>

-----------------------------------------------------------------------------
(* A running update() *)

\* an update() that calls the captured continuation as soon as one is there
UpdateStepInvokingEarly(p, ok) ==
    LET m == instances[p]
        writes == PendingWrites(m)
        w == writes[upd[p].next]
        cfg == IF ok THEN ApplyWrite(config, m, w, upd[p].current) ELSE config
        captured == IF ok THEN CaptureInstances(instances, migration) ELSE instances
        last == ~ok \/ upd[p].next = Len(writes)
        invoked == captured[p].didChangeConfiguration
        forwarded == (IF ok THEN ForwardedNow(migration) ELSE 0) + (IF invoked THEN 1 ELSE 0)
    IN  [ cfg       |-> cfg,
          instances |-> IF last THEN Remove(captured, p) ELSE captured,
          last      |-> last,
          next      |-> [ next    |-> upd[p].next + 1,
                          current |-> CurrentFor(m, upd[p].next + 1, cfg, upd[p].current) ],
          ev        |-> [ Ev("update", p) EXCEPT
                            !.forwarded = forwarded,
                            !.invoked = invoked,
                            !.write = IF ok THEN "ok" ELSE "failed",
                            !.key = w.family,
                            !.tier = w.tier,
                            !.index = w.index,
                            !.error = ~ok,
                            !.recorded = m ] ]

\* an update() that goes on with the next write after one was rejected
UpdateStepContinuingAfterFailure(p, ok) ==
    LET m == instances[p]
        writes == PendingWrites(m)
        w == writes[upd[p].next]
        cfg == IF ok THEN ApplyWrite(config, m, w, upd[p].current) ELSE config
        captured == IF ok THEN CaptureInstances(instances, migration) ELSE instances
        last == upd[p].next = Len(writes)
        invoked == last /\ captured[p].didChangeConfiguration
        forwarded == (IF ok THEN ForwardedNow(migration) ELSE 0) + (IF invoked THEN 1 ELSE 0)
    IN  [ cfg       |-> cfg,
          instances |-> IF last THEN Remove(captured, p) ELSE captured,
          last      |-> last,
          next      |-> [ next    |-> upd[p].next + 1,
                          current |-> CurrentFor(m, upd[p].next + 1, cfg, upd[p].current) ],
          ev        |-> [ Ev("update", p) EXCEPT
                            !.forwarded = forwarded,
                            !.invoked = invoked,
                            !.write = IF ok THEN "ok" ELSE "failed",
                            !.key = w.family,
                            !.tier = w.tier,
                            !.index = w.index,
                            !.error = ~ok,
                            !.recorded = m ] ]

\* one store write of update() settles. After a write that succeeded the next one
\* is issued; after the last one, or a rejected one, the finally block calls the
\* captured continuation and update() is over
UpdateStep(p, ok) ==
    LET m == instances[p]
        writes == PendingWrites(m)
        w == writes[upd[p].next]
        cfg == IF ok THEN ApplyWrite(config, m, w, upd[p].current) ELSE config
        captured == IF ok THEN CaptureInstances(instances, migration) ELSE instances
        last == ~ok \/ upd[p].next = Len(writes)
        invoked == last /\ captured[p].didChangeConfiguration
        forwarded == (IF ok THEN ForwardedNow(migration) ELSE 0) + (IF invoked THEN 1 ELSE 0)
    IN  [ cfg       |-> cfg,
          instances |-> IF last THEN Remove(captured, p) ELSE captured,
          last      |-> last,
          next      |-> [ next    |-> upd[p].next + 1,
                          current |-> CurrentFor(m, upd[p].next + 1, cfg, upd[p].current) ],
          ev        |-> [ Ev("update", p) EXCEPT
                            !.forwarded = forwarded,
                            !.invoked = invoked,
                            !.write = IF ok THEN "ok" ELSE "failed",
                            !.key = w.family,
                            !.tier = w.tier,
                            !.index = w.index,
                            !.error = ~ok,
                            !.recorded = m ] ]

\* update() called by the configuration pull (lines 1001 to 1005), then the end of
\* the thunk
UpdateWrite(b) ==
    /\ pc[b] = "update"
    /\ \E ok \in BOOLEAN :
          LET step == UpdateStep(b, ok)
          IN  /\ ev' = step.ev
              /\ instances' = step.instances
              /\ IF ok THEN ListenerRan(step.cfg)
                       ELSE UNCHANGED <<config, probeFailed, probeHistory, syncedDocuments, serverDocuments>>
              /\ IF step.last
                 THEN /\ migration' = None
                      /\ ThunkEnd(b, semaphore.waiting)
                      /\ UNCHANGED upd
                 ELSE /\ upd' = [upd EXCEPT ![b] = step.next]
                      /\ UNCHANGED <<migration, semaphore, pc, result>>
    /\ UNCHANGED <<textDocuments, notNow, items, edits>>

\* the command patched.migrateSettings: migrateSettings() up to its update()
MigrateSettings(uri) ==
    /\ pc[Command] = "idle"
    /\ \E inspectUndefined \in BOOLEAN :
          LET m == Record(NewMigration(uri, config), config, inspectUndefined)
          IN  /\ ev' = [Ev("migrateSettings", Command) EXCEPT !.recorded = m]
              /\ IF NeedsUpdate(m)
                 THEN /\ instances' = Put(instances, Command, m)
                      /\ pc' = [pc EXCEPT ![Command] = "update"]
                      /\ upd' = [upd EXCEPT ![Command] =
                                    [ next    |-> 1,
                                      current |-> CurrentFor(m, 1, config, NoCurrent) ]]
                 ELSE UNCHANGED <<instances, pc, upd>>
    /\ UNCHANGED <<config, probeFailed, probeHistory, textDocuments, syncedDocuments, serverDocuments, migration, notNow,
                   semaphore, items, result, edits>>

\* update() called by migrateSettings (lines 802 to 806)
CommandWrite ==
    /\ pc[Command] = "update"
    /\ \E ok \in BOOLEAN :
          LET step == UpdateStep(Command, ok)
          IN  /\ ev' = step.ev
              /\ instances' = step.instances
              /\ IF ok THEN ListenerRan(step.cfg)
                       ELSE UNCHANGED <<config, probeFailed, probeHistory, syncedDocuments, serverDocuments>>
              /\ IF step.last
                 THEN /\ pc' = [pc EXCEPT ![Command] = "idle"]
                      /\ UNCHANGED upd
                 ELSE /\ upd' = [upd EXCEPT ![Command] = step.next]
                      /\ UNCHANGED pc
    /\ UNCHANGED <<textDocuments, migration, notNow, semaphore, items, result, edits>>

\* the user edits a setting (patched.enable of the workspace) while pulls are running
EditSetting ==
    /\ edits < MaxEdits
    /\ edits' = edits + 1
    /\ ListenerRan([config EXCEPT !.enable["workspace"] =
                        IF @ = "undefined" THEN "true" ELSE "undefined"])
    /\ instances' = CaptureInstances(instances, migration)
    /\ ev' = [Ev("didChangeConfiguration", "env") EXCEPT
                 !.forwarded = ForwardedNow(migration), !.write = "ok", !.key = "edit"]
    /\ UNCHANGED <<textDocuments, migration, notNow, semaphore, pc, items, result, upd>>

\* the user sets another key of the [javascript] section of a slot while a
\* Migration of a pull waits for the answer to its prompt or runs its update()
EditLanguageSetting(slot) ==
    /\ edits < MaxEdits
    /\ \E b \in Batches : pc[b] \in {"prompt", "update"}
    /\ edits' = edits + 1
    /\ ListenerRan([config EXCEPT !.language["javascript"][slot] =
                        [@ EXCEPT !.defined = TRUE, !.other = "set"]])
    /\ instances' = CaptureInstances(instances, migration)
    /\ ev' = [Ev("didChangeConfiguration", "env") EXCEPT
                 !.forwarded = ForwardedNow(migration), !.write = "ok", !.key = "edit"]
    /\ UNCHANGED <<textDocuments, migration, notNow, semaphore, pc, items, result, upd>>

-----------------------------------------------------------------------------
(* Specifications *)

\* the state after realActivate, with the store holding cfg
InitWith(cfg) ==
    /\ config = cfg
    /\ probeFailed = {}
    /\ textDocuments = {}
    /\ syncedDocuments = {}
    /\ serverDocuments = [u \in Uris |-> 0]
    /\ migration = None
    /\ instances = [p \in {} |-> NoMigration]
    /\ notNow = FALSE
    /\ semaphore = [active |-> None, waiting |-> <<>>]
    /\ pc = [p \in Procs |-> "idle"]
    /\ items = [b \in Batches |-> <<>>]
    /\ result = [b \in Batches |-> <<>>]
    /\ upd = [p \in Procs |-> [next |-> 0, current |-> NoCurrent]]
    /\ edits = 0
    /\ probeHistory = [sinceConfig |-> {}, sinceReset |-> {}]
    /\ ev = Ev("init", "env")

(* The validation gate: documents, settings of the gate, probe failures *)
InitGate == InitWith(DefaultConfig)

NextGate ==
    \/ \E d \in Documents : DidOpen(d)
    \/ \E d \in Documents : DidClose(d)
    \/ \E u \in Uris \ PackageJsonUris : ProbeFailedRequest(u)
    \/ DidChangeWatchedFile
    \/ ChangeGateSetting

SpecGate == InitGate /\ [][NextGate]_vars

(* The document messages the middleware passes to the server                    *)
NextSync ==
    \/ \E d \in Documents : DidOpen(d)
    \/ \E d \in Documents : DidClose(d)
    \/ \E d \in Documents, kind \in DocumentMessages, wanted \in BOOLEAN :
          DocumentMessage(d, kind, wanted)
    \/ \E u \in Uris \ PackageJsonUris : ProbeFailedRequest(u)
    \/ ChangeGateSetting

SpecSync == InitGate /\ [][NextSync]_vars

(* The migration engine on every combination of autoFixOnSave and               *)
(* editor.codeActionsOnSave in the three tiers of one resource                  *)
TierSlots == {"global", "workspace", "f1"}

MigrationConfigs ==
    { [DefaultConfig EXCEPT
          !.autoFixOnSave = [s \in Slots |-> IF s \in TierSlots THEN af[s] ELSE "undefined"],
          !.codeActionsOnSave = [s \in Slots |-> IF s \in TierSlots THEN ca[s] ELSE Undefined],
          !.validate["global"] = v] :
        af \in [TierSlots -> Tri],
        ca \in [TierSlots -> CodeActionsOnSaveValues],
        v \in {NoArray, Array(<<RecordItem("javascript", "false")>>)} }

InitMigration == \E cfg \in MigrationConfigs : InitWith(cfg)

NextMigration ==
    \/ MigrateSettings("u1")
    \/ CommandWrite

SpecMigration == InitMigration /\ [][NextMigration]_vars

(* The migration engine on validate lists and [languageId] sections in the three *)
(* tiers of one resource                                                         *)
ValidateTierLists ==
    { NoArray,
      Array(<<RecordItem("javascript", "false")>>),
      Array(<<StringItem("javascript"), RecordItem("typescript", "true"),
              RecordItem("javascript", "false"), RecordItem("javascript", "false")>>) }

ValidateConfigs ==
    { [DefaultConfig EXCEPT
          !.autoFixOnSave["global"] = af["global"],
          !.autoFixOnSave["workspace"] = af["workspace"],
          !.codeActionsOnSave["global"] = ca["global"],
          !.codeActionsOnSave["workspace"] = ca["workspace"],
          !.codeActionsOnSave["f1"] = cf,
          !.validate = [s \in Slots |-> IF s \in TierSlots THEN v[s] ELSE NoArray],
          !.language["javascript"]["f1"] = sec,
          !.workingDirectories["workspace"] = wd] :
        af \in [{"global", "workspace"} -> {"undefined", "true"}],
        ca \in [{"global", "workspace"} ->
                   { Undefined,
                     [obj |-> TRUE, fixAll |-> "true", patched |-> "undefined"],
                     [obj |-> TRUE, fixAll |-> "undefined", patched |-> "false"] }],
        cf \in {Undefined, [obj |-> TRUE, fixAll |-> "true", patched |-> "undefined"]},
        v \in [TierSlots -> ValidateTierLists],
        sec \in { NoSection,
                  Section([obj |-> TRUE, fixAll |-> "undefined", patched |-> "false"]) },
        wd \in { NoArray,
                 Array(<<LegacyEntry(<<"/", "a">>, "false"),
                         DirectoryEntry(<<"/", "a", "/", "b">>, "undefined")>>) } }

InitValidate == \E cfg \in ValidateConfigs : InitWith(cfg)

NextValidate ==
    \/ MigrateSettings("u1")
    \/ CommandWrite

SpecValidate == InitValidate /\ [][NextValidate]_vars

(* Two concurrent configuration pulls; "b1" names the one that arrives first *)
PullConfigs ==
    { [DefaultConfig EXCEPT !.autoFixOnSave["global"] = "true",
                            !.autoFixOnSave["f1"] = "true",
                            !.autoFixOnSave["f2"] = "true"],
      [DefaultConfig EXCEPT !.autoFixOnSave["global"] = "true",
                            !.validate["global"] = Array(<<RecordItem("javascript", "false")>>),
                            !.language["javascript"]["global"] = Section(EmptyObject)] }

InitPull == \E cfg \in PullConfigs : InitWith(cfg)

\* the continuation of a lock() that resolved runs before any other event of the
\* editor is handled; only the thunk the semaphore runs next may come first
AfterContinuations(A) == NoContinuationPending /\ A

NextPull ==
    \/ \E its \in ItemSeqs : AfterContinuations(PullRequest("b1", its))
    \/ \E its \in ItemSeqsSecond :
          AfterContinuations(pc["b1"] # "idle" /\ PullRequest("b2", its))
    \/ \E b \in Batches : ThunkStart(b)
    \/ \E b \in Batches : AfterLock(b)
    \/ \E b \in Batches, choice \in Choices : AfterContinuations(PromptAnswer(b, choice))
    \/ \E b \in Batches : AfterContinuations(GlobalWrite(b))
    \/ \E b \in Batches : AfterContinuations(UpdateWrite(b))

SpecPull == InitPull /\ [][NextPull]_vars

(* One configuration pull, the command patched.migrateSettings and edits of the *)
(* user                                                                         *)
NextCommand ==
    \/ \E its \in ItemSeqs : AfterContinuations(PullRequest("b1", its))
    \/ ThunkStart("b1")
    \/ AfterLock("b1")
    \/ \E choice \in Choices : AfterContinuations(PromptAnswer("b1", choice))
    \/ AfterContinuations(GlobalWrite("b1"))
    \/ AfterContinuations(UpdateWrite("b1"))
    \/ AfterContinuations(MigrateSettings("u1"))
    \/ AfterContinuations(CommandWrite)
    \/ AfterContinuations(EditSetting)

SpecCommand == InitPull /\ [][NextCommand]_vars

(* One configuration pull whose Migration writes per-language slots, and the    *)
(* user editing another key of such a slot meanwhile                            *)
MergeConfigs ==
    { [DefaultConfig EXCEPT
          !.autoFixOnSave["global"] = af,
          !.codeActionsOnSave["global"] = ca,
          !.validate["workspace"] = Array(<<RecordItem("javascript", "false")>>),
          !.validate["f1"] = vf,
          !.language["javascript"]["workspace"] = sec] :
        af \in {"undefined", "true"},
        ca \in {Undefined, [obj |-> TRUE, fixAll |-> "true", patched |-> "undefined"]},
        vf \in {NoArray, Array(<<RecordItem("javascript", "false")>>)},
        sec \in {NoSection, Section(EmptyObject), [Section(EmptyObject) EXCEPT !.other = "set"]} }

InitMerge == \E cfg \in MergeConfigs : InitWith(cfg)

NextMerge ==
    \/ AfterContinuations(PullRequest("b1", <<[scopeUri |-> "u1", section |-> FALSE]>>))
    \/ ThunkStart("b1")
    \/ AfterLock("b1")
    \/ \E choice \in Choices : AfterContinuations(PromptAnswer("b1", choice))
    \/ AfterContinuations(GlobalWrite("b1"))
    \/ AfterContinuations(UpdateWrite("b1"))
    \/ \E slot \in {"workspace", "f1"} : AfterContinuations(EditLanguageSetting(slot))

SpecMerge == InitMerge /\ [][NextMerge]_vars

\* once the thunk has started the pull goes on whenever it can: the user leaves the
\* modal prompt with one of its answers, every awaited config.update settles and
\* the continuation of lock() runs; edits of the user may stay away. The store
\* changes only after the thunk of the one item has started
FairMerge ==
    /\ WF_vars(AfterLock("b1"))
    /\ WF_vars(\E choice \in Choices : AfterContinuations(PromptAnswer("b1", choice)))
    /\ WF_vars(AfterContinuations(GlobalWrite("b1")))
    /\ WF_vars(AfterContinuations(UpdateWrite("b1")))

SpecMergeLive == SpecMerge /\ FairMerge

(* The settings projection: one configuration pull after documents were opened, *)
(* under every workingDirectories list and the settings the record is built from *)
WorkingDirectoryEntries ==
    { StringEntry(<<"/", "a">>),
      StringEntry(<<"/", "a", "/", "b">>),
      StringEntry(<<"b">>),
      LegacyEntry(<<"/", "a", "/", "b">>, "false"),
      DirectoryEntry(<<"/", "a">>, "true"),
      DirectoryEntry(<<"/", "b", "/">>, "undefined"),
      ModeEntry }
EntryLists == UNION {[1..n -> WorkingDirectoryEntries] : n \in 0..MaxEntries}

SettingsConfigs ==
    { [DefaultConfig EXCEPT !.validate["workspace"] = Array(<<StringItem("javascript")>>),
                            !.probe["workspace"] = [isArray |-> TRUE, items |-> <<"typescript">>],
                            !.workingDirectories["workspace"] = Array(l)] :
        l \in EntryLists }
    \cup
    { [DefaultConfig EXCEPT !.validate["workspace"] = v,
                            !.probe["workspace"] = [isArray |-> TRUE, items |-> <<"typescript">>],
                            !.enabled["workspace"] = e,
                            !.formatEnable["global"] = f,
                            !.codeActionsOnSave["global"] = c,
                            !.language["javascript"]["workspace"] = sec] :
        v \in {NoArray, Array(<<StringItem("javascript")>>)},
        e \in {"undefined", "false"},
        f \in {"undefined", "true"},
        c \in { Undefined,
                [obj |-> TRUE, fixAll |-> "true", patched |-> "undefined"],
                [obj |-> TRUE, fixAll |-> "true", patched |-> "false"],
                [obj |-> TRUE, fixAll |-> "false", patched |-> "true"] },
        sec \in { NoSection,
                  Section(Undefined),
                  Section(EmptyObject),
                  Section([obj |-> TRUE, fixAll |-> "true", patched |-> "undefined"]),
                  Section([obj |-> TRUE, fixAll |-> "true", patched |-> "false"]),
                  Section([obj |-> TRUE, fixAll |-> "undefined", patched |-> "false"]) } }

InitSettings == \E cfg \in SettingsConfigs : InitWith(cfg)

NextSettings ==
    \/ \E d \in Documents : AfterContinuations(DidOpen(d))
    \/ AfterContinuations(ProbeFailedRequest("u2"))
    \/ \E item \in Items : AfterContinuations(PullRequest("b1", <<item>>))
    \/ ThunkStart("b1")
    \/ AfterLock("b1")

SpecSettings == InitSettings /\ [][NextSettings]_vars

-----------------------------------------------------------------------------
(* Validation gate: claims *)

\* the settings of the gate as section 4.1 of the specification names them
GateEnabled(d) == GetTri(config, "enable", d.uri) # "false"
InAllowList(d) ==
    LET validate == GetArray(config, "validate", d.uri)
    IN  /\ validate.isArray
        /\ d.languageId \in
              {validate.items[i].language : i \in
                  {j \in 1..Len(validate.items) :
                      \/ validate.items[j].isString
                      \/ validate.items[j].autoFix \in {"true", "false", "undefined"}}}
InProbeList(d) ==
    LET probe == GetArray(config, "probe", d.uri)
    IN  probe.isArray /\ d.languageId \in {probe.items[i] : i \in 1..Len(probe.items)}

GatePriority ==
    \A d \in Documents :
        LET outcome == computeValidate(d, config, probeFailed)
        IN  /\ ~GateEnabled(d) => outcome = "off"
            /\ GateEnabled(d) /\ InAllowList(d) => outcome = "on"
            /\ GateEnabled(d) /\ ~InAllowList(d) /\ d.uri \in probeFailed => outcome = "off"
            /\ GateEnabled(d) /\ ~InAllowList(d) /\ d.uri \notin probeFailed /\ InProbeList(d)
                  => outcome = "probe"
            /\ GateEnabled(d) /\ ~InAllowList(d) /\ d.uri \notin probeFailed /\ ~InProbeList(d)
                  => outcome = "off"

\* C1: computeValidate decides in the fixed priority order disabled -> off, language
\* in the validate allow-list -> on, uri in the probe-failed set -> off, language in
\* the probe list -> probe, else off, for every combination of the settings and the
\* probe-failed set; a step that only evaluates it (a document is opened) changes
\* neither the probe-failed set nor the configuration
C1_GatePriorityOrder ==
    /\ GatePriority
    /\ ev.op = "didOpen" =>
          /\ (\E d \in syncedDocuments : d.uri = ev.who) <=>
                \E d \in Documents :
                    /\ d.uri = ev.who
                    /\ MatchesFileFilter(d) \/ computeValidate(d, config, probeFailed) # "off"

\* C1 (frame): opening a document, which evaluates computeValidate, leaves the
\* probe-failed set and the configuration as they were
C1_GateHasNoSideEffects ==
    [][ev'.op = "didOpen" => probeFailed' = probeFailed /\ config' = config]_vars

\* C1 witness: a document whose language is in the allow-list and whose uri is in
\* the probe-failed set was opened and is synchronized (on wins over probe-failed)
C1_Witness ==
    \E d \in syncedDocuments :
        /\ ev.op = "didOpen" /\ ev.who = d.uri
        /\ d.uri \in probeFailed
        /\ InAllowList(d) /\ InProbeList(d)
        /\ computeValidate(d, config, probeFailed) = "on"

-----------------------------------------------------------------------------
(* Migration engine, record(): claims *)

\* the store's values of one tier of the resource record() ran for, which the step
\* that ran record() left as they were
CodeActionsBefore(t) == config.codeActionsOnSave[SlotOf(t, ev.recorded.resource)]
AutoFixBefore(t) == config.autoFixOnSave[SlotOf(t, ev.recorded.resource)]
Recorded(t) == ev.recorded.codeActionOnSave[t]

\* C3: explicit opt-out wins: in every tier whose editor.codeActionsOnSave has
\* 'source.fixAll.patched' exactly false before migration, record() leaves the value
\* as it was (still false) and the tier's codeActionOnSave element has changed =
\* false, whatever autoFixOnSave and the validate list are
C3_ExplicitOptOutWins ==
    ev.op = "migrateSettings" =>
        \A t \in TierSet :
            CodeActionsBefore(t).obj /\ CodeActionsBefore(t).patched = "false"
                => /\ Recorded(t).value = CodeActionsBefore(t)
                   /\ Recorded(t).value.patched = "false"
                   /\ Recorded(t).changed = FALSE

\* C3 witness: record() ran on a tier that opted out although autoFixOnSave is true
\* there, the generic flag is not on and the validate list has an autoFix: false entry
C3_Witness ==
    /\ ev.op = "migrateSettings"
    /\ \E t \in TierSet :
          /\ CodeActionsBefore(t).obj /\ CodeActionsBefore(t).patched = "false"
          /\ CodeActionsBefore(t).fixAll # "true"
          /\ AutoFixBefore(t) = "true"
    /\ \E t \in TierSet : Recorded(t).changed
    /\ config.validate["global"].isArray

\* neither the generic nor the linter-specific flag is present in the tier
NeitherFlagSet(t) ==
    CodeActionsBefore(t).fixAll = "undefined" /\ CodeActionsBefore(t).patched = "undefined"

\* C4 as stated: a tier with autoFixOnSave true and neither flag set gets the
\* linter-specific flag true and changed = true, the generic flag untouched, and a
\* tier that does not meet that condition keeps changed = false
C4_ChangedOnlyWhenNeitherFlagSet ==
    ev.op = "migrateSettings" =>
        \A t \in TierSet :
            IF AutoFixBefore(t) = "true" /\ NeitherFlagSet(t)
            THEN /\ Recorded(t).changed
                 /\ Recorded(t).value.patched = "true"
                 /\ Recorded(t).value.fixAll = CodeActionsBefore(t).fixAll
            ELSE Recorded(t).changed = FALSE

\* the condition record() tests: autoFixOnSave is true, the generic flag is not true
\* (absent or false) and the linter-specific flag is absent
MeetsRecordCondition(t) ==
    /\ AutoFixBefore(t) = "true"
    /\ CodeActionsBefore(t).fixAll # "true"
    /\ CodeActionsBefore(t).patched = "undefined"

\* C4 amended: a tier is changed exactly when its autoFixOnSave is true, its generic
\* flag is not true (absent or explicitly false) and its linter-specific flag is
\* absent; record() then sets the linter-specific flag to true and changed = true in
\* that tier, leaves the generic flag untouched, and every other tier keeps both
\* flags and changed = false
C4_ChangedExactlyWhenConditionMet ==
    ev.op = "migrateSettings" =>
        \A t \in TierSet :
            /\ Recorded(t).changed <=> MeetsRecordCondition(t)
            /\ Recorded(t).value.fixAll = CodeActionsBefore(t).fixAll
            /\ Recorded(t).value.patched =
                  IF MeetsRecordCondition(t) THEN "true" ELSE CodeActionsBefore(t).patched

\* C4 witness: record() changed the workspace tier only, the other two tiers have
\* autoFixOnSave true as well but do not meet the condition
C4_Witness ==
    /\ ev.op = "migrateSettings"
    /\ AutoFixBefore("workspace") = "true" /\ NeitherFlagSet("workspace")
    /\ Recorded("workspace").changed /\ Recorded("workspace").value.patched = "true"
    /\ AutoFixBefore("global") = "true" /\ ~Recorded("global").changed
    /\ AutoFixBefore("workspaceFolder") = "true" /\ ~Recorded("workspaceFolder").changed

-----------------------------------------------------------------------------
(* Configuration pull and update(): claims *)

\* the batches whose modal prompt is open
PromptOpen == {b \in Batches : pc[b] = "prompt"}

\* the batches inside the critical section of the semaphore
InCriticalSection == {b \in Batches : pc[b] \in {"prompt", "globalWrite", "update"}}

\* C5 (the part that holds): at every moment at most one migration prompt is open
\* and at most one batch is inside the record, prompt, update section
C5_AtMostOnePrompt ==
    /\ Cardinality(PromptOpen) <= 1
    /\ Cardinality(InCriticalSection) <= 1
    /\ \A b \in InCriticalSection : semaphore.active = b /\ migration = b

\* C5: single modal at a time: with two concurrent configuration pulls that both
\* need migration at most one prompt is open at every moment, and no pull ends
\* without returning its result array
C5_OnePromptAndEveryBatchCompletes ==
    /\ C5_AtMostOnePrompt
    /\ \A b \in Batches : pc[b] # "rejected"

\* entry i of the result of b answers item i of b
EntryAnswersItem(b, i) ==
    IF IsNullItem(items[b][i])
    THEN result[b][i] = NullEntry
    ELSE result[b][i].kind = "settings" /\ result[b][i].scopeUri = items[b][i].scopeUri

\* C6 (the part that holds): the entries pushed so far answer the items in input
\* order, a pull that returned has one entry per item, and the lock is taken, a
\* Migration constructed and the prompt shown only for an item that has a scope
\* uri and no section
C6_NullItemsTakeNoLock ==
    \A b \in Batches :
        /\ Len(result[b]) <= Len(items[b])
        /\ \A i \in 1..Len(result[b]) : EntryAnswersItem(b, i)
        /\ pc[b] = "done" => Len(result[b]) = Len(items[b])
        /\ pc[b] \in {"waiting", "prompt", "globalWrite", "update", "settings"}
              => /\ Len(result[b]) < Len(items[b])
                 /\ ~IsNullItem(items[b][Len(result[b]) + 1])
        /\ (\E i \in 1..Len(semaphore.waiting) : semaphore.waiting[i] = b) => pc[b] = "waiting"

\* C6: the configuration pull returns an array with exactly one entry per input
\* item, in input order: null for an item with a section or without a scope uri, a
\* settings record for every other item; no pull ends in an error
C6_OneEntryPerItem ==
    \A b \in Batches :
        pc[b] \in {"done", "rejected"} =>
            /\ pc[b] = "done"
            /\ Len(result[b]) = Len(items[b])
            /\ \A i \in 1..Len(result[b]) : EntryAnswersItem(b, i)

\* the instance of p has a continuation registered when the step is over, before
\* the finally block of update() runs
ContinuationRegistered(p) ==
    \/ instances[p].didChangeConfiguration
    \/ ev'.write = "ok" /\ migration = p

\* C7: update() invokes the registered 'configuration changed' continuation exactly
\* once, in the step that ends update(), which is the step of the last write it
\* attempts, whether that write succeeded or failed; the instance and its
\* continuation are dropped in that step, and the continuation is invoked in no step
\* before a write of update() was attempted and in no step outside update()
C7_Step ==
    /\ ev'.invoked =>
          /\ ev'.op = "update"
          /\ ev'.write \in {"ok", "failed"}
          /\ pc[ev'.who] = "update"
    /\ ev'.op = "update" =>
          LET p == ev'.who
              writes == PendingWrites(instances[p])
              last == ev'.write = "failed" \/ upd[p].next = Len(writes)
          IN  /\ pc[p] = "update" /\ upd[p].next \in 1..Len(writes)
              /\ ev'.invoked <=> (last /\ ContinuationRegistered(p))
              /\ last => p \notin DOMAIN instances' /\ pc'[p] # "update"
              /\ ~last => /\ p \in DOMAIN instances' /\ pc'[p] = "update"
                          /\ upd'[p].next = upd[p].next + 1
                          /\ instances'[p].didChangeConfiguration = ContinuationRegistered(p)
    /\ ev'.op # "update" =>
          \A p \in DOMAIN instances :
              p \in DOMAIN instances' /\ pc'[p] = "update" /\ pc[p] = "update"
                  => upd'[p] = upd[p]

C7_ContinuationInvokedOnceAtTheEnd == [][C7_Step]_vars

\* C7 witness: the second write of an update() failed and the continuation that
\* the first write registered was invoked
C7_Witness ==
    /\ ev.op = "update" /\ ev.invoked /\ ev.write = "failed"
    /\ ev.who \notin DOMAIN instances

\* an update() is between its first and its last write
UpdateHalfDone == \E p \in Procs : pc[p] = "update" /\ upd[p].next > 1

\* C8: no configuration-changed notification is forwarded to the server between
\* the first and the last write of a running update()
C8_NothingForwardedDuringUpdate ==
    ev.forwarded > 0 => ~UpdateHalfDone

\* C9: the answer to the prompt has exactly one outcome: 'Yes' starts update() and
\* nothing else, 'Never migrate Settings' issues the write of migration.2_x = off
\* and nothing else, 'Open Readme' and 'Not now' set notNow and nothing else; notNow
\* is set by nothing else and stays set; migration.2_x stays off; and a Migration is
\* constructed or a prompt shown only while notNow is false and migration.2_x is on
C9_Step ==
    /\ ev'.op = "answer" /\ ev'.choice = "yes" =>
          pc'[ev'.who] = "update" /\ notNow' = notNow /\ config' = config
    /\ ev'.op = "answer" /\ ev'.choice = "global" =>
          pc'[ev'.who] = "globalWrite" /\ notNow' = notNow /\ config' = config
    /\ ev'.op = "globalWrite" =>
          /\ pc[ev'.who] = "globalWrite" /\ ev'.key = "migration.2_x"
          /\ notNow' = notNow
          /\ config' = IF ev'.write = "ok" THEN [config EXCEPT !.migration2x = "off"] ELSE config
    /\ ev'.op = "answer" /\ ev'.choice \in {"readme", "no"} =>
          notNow' /\ config' = config /\ pc'[ev'.who] \notin {"update", "globalWrite"}
    /\ ev'.op = "answer" /\ ev'.choice = "undefined" =>
          notNow' = notNow /\ config' = config /\ pc'[ev'.who] \notin {"update", "globalWrite"}
    /\ notNow' # notNow => ev'.op = "answer" /\ ev'.choice \in {"readme", "no"}
    /\ notNow => notNow'
    /\ config.migration2x = "off" => config'.migration2x = "off"
    /\ ev'.constructed \/ ev'.prompted => notNow = FALSE /\ config.migration2x = "on"
    /\ \A b \in Batches : pc'[b] = "prompt" /\ pc[b] # "prompt" => ev'.prompted /\ ev'.who = b

C9_OneOutcomeAndNoPromptAfterOptOut == [][C9_Step]_vars

\* C9 witness: after 'Not now' a later item of a pull whose resource needs
\* migration went through the lock with no Migration constructed and no prompt
C9_Witness ==
    /\ ev.op = "thunk" /\ notNow /\ config.migration2x = "on"
    /\ ~ev.constructed /\ ~ev.prompted
    /\ NeedsUpdate(Record(NewMigration("u1", config), config, FALSE))

\* C10: in the configuration pull a store write of update() is issued only for a
\* Migration instance whose prompt the user answered with 'Yes'; the step that runs
\* record() and needsUpdate() and the step of the answer write nothing; after
\* 'Open Readme', 'Not now' or a dismissed prompt no write follows; the only other
\* write is the one of migration.2_x after 'Never migrate Settings'
C10_Step ==
    /\ ev'.op = "update" /\ ev'.who \in Batches =>
          ev'.who \in DOMAIN instances /\ instances[ev'.who].accepted
    /\ \A b \in Batches :
          pc'[b] = "update" => b \in DOMAIN instances' /\ instances'[b].accepted
    /\ \A b \in DOMAIN instances' :
          instances'[b].accepted /\ ~(b \in DOMAIN instances /\ instances[b].accepted)
              => ev'.op = "answer" /\ ev'.choice = "yes" /\ ev'.who = b
    /\ ev'.op \in {"thunk", "answer", "configuration", "settings"} =>
          config' = config /\ ev'.write = "none"
    /\ ev'.op = "answer" /\ ev'.choice \in {"readme", "no", "undefined"} =>
          pc'[ev'.who] = "settings" /\ ev'.who \notin DOMAIN instances'
    /\ config' # config =>
          \/ ev'.op = "update" /\ ev'.write = "ok"
          \/ ev'.op = "globalWrite" /\ ev'.write = "ok"
          \/ ev'.op = "didChangeConfiguration"
    /\ ev'.write # "none" => ev'.op \in {"update", "globalWrite", "didChangeConfiguration"}

C10_WritesOnlyAfterAcceptance == [][C10_Step]_vars

\* C10 witness: a write of update() into editor.codeActionsOnSave succeeded for a
\* batch whose prompt was answered with 'Yes'
C10_Witness ==
    /\ ev.op = "update" /\ ev.who \in Batches /\ ev.write = "ok"
    /\ ev.key = "codeActionsOnSave"
    /\ \E s \in Slots : config.codeActionsOnSave[s].patched = "true"

-----------------------------------------------------------------------------
(* Settings projection: claims *)

\* the step just taken pushed a settings record for its item (the code after lock())
SettingsBuilt == ev.op = "settings"

\* that settings record: the last one of the result that is no null
BuiltSettings ==
    LET res == result[ev.who]
        i == CHOOSE k \in 1..Len(res) :
                /\ res[k].kind = "settings"
                /\ \A j \in (k + 1)..Len(res) : res[j].kind # "settings"
    IN  res[i]

IsSynced(uri) == \E d \in syncedDocuments : d.uri = uri

\* the directory an entry names for a resource: absolute and ending in the separator
DirectoryNamed(entry, uri) ==
    LET folder == FolderPath(FolderOf(uri))
        absolute == IF entry.directory # <<>> /\ entry.directory[1] = Sep
                    THEN entry.directory
                    ELSE IF entry.directory = <<>> THEN folder
                    ELSE folder \o <<Sep>> \o entry.directory
    IN  IF absolute[Len(absolute)] = Sep THEN absolute ELSE absolute \o <<Sep>>

DirectoriesOnly(entries) ==
    \A i \in 1..Len(entries) : entries[i].kind \in {"string", "legacy", "directory"}

\* the directories of the list that are a prefix of the document's path
MatchingDirectories(entries, uri) ==
    { dir \in {DirectoryNamed(entries[i], uri) : i \in 1..Len(entries)} :
        /\ Len(dir) <= Len(FsPath(uri))
        /\ \A k \in 1..Len(dir) : dir[k] = FsPath(uri)[k] }

Reversed(seq) == [i \in 1..Len(seq) |-> seq[Len(seq) + 1 - i]]

\* C11: longest prefix wins: for a synchronized document and a workingDirectories
\* list of directory entries only (strings, legacy or current shape) the working
\* directory of the settings record is the longest directory of the list that is a
\* prefix of the document's path, none when no directory is, and the reversed list
\* resolves to the same directory
C11_LongestPrefixWins ==
    SettingsBuilt =>
        LET settings == BuiltSettings
            uri == settings.scopeUri
            list == GetArray(config, "workingDirectories", uri)
            matching == MatchingDirectories(list.items, uri)
            reversed == ResolveWorkingDirectory(Reversed(list.items), 1, NoWorkingDirectory,
                                                FsPath(uri), FolderPath(FolderOf(uri)))
        IN  IsSynced(uri) /\ list.isArray /\ DirectoriesOnly(list.items) =>
                /\ matching = {} => settings.workingDirectory = NoWorkingDirectory
                /\ matching # {} =>
                      /\ settings.workingDirectory.kind = "directory"
                      /\ settings.workingDirectory.directory \in matching
                      /\ \A dir \in matching :
                            Len(dir) <= Len(settings.workingDirectory.directory)
                /\ reversed.kind = settings.workingDirectory.kind
                /\ reversed.directory = settings.workingDirectory.directory

\* C11 witness: the list ["/a/b", "/a"], the ancestor last, and the document
\* /a/b/c resolved to /a/b
C11_Witness ==
    /\ SettingsBuilt
    /\ BuiltSettings.scopeUri = "u1" /\ IsSynced("u1")
    /\ config.workingDirectories["workspace"] =
          Array(<<StringEntry(<<"/", "a", "/", "b">>), StringEntry(<<"/", "a">>)>>)
    /\ BuiltSettings.workingDirectory.directory = <<"/", "a", "/", "b", "/">>

\* the changed flags and values of an instance
ElementsOf(m) ==
    [ codeActionOnSave         |-> m.codeActionOnSave,
      autoFixOnSave            |-> m.autoFixOnSave,
      validate                 |-> m.validate,
      workingDirectories       |-> m.workingDirectories,
      languageSpecificSettings |-> m.languageSpecificSettings ]

\* C12: a store write of update() that fails in the configuration pull is reported
\* by one error notification, shown in no other step; the failing step ends update()
\* (no retry, the writes after it are skipped), leaves the store with the writes
\* that succeeded before, leaves the changed flags of the instance as record() set
\* them, and does not propagate: the lock is free for the next waiter and the code
\* after lock() pushes the settings record of the item
C12_Step ==
    /\ ev'.error <=> (ev'.op = "update" /\ ev'.write = "failed")
    /\ ev'.op = "update" /\ ev'.who \in Batches =>
          ElementsOf(ev'.recorded) = ElementsOf(instances[ev'.who])
    /\ ev'.op = "update" /\ ev'.write = "failed" /\ ev'.who \in Batches =>
          LET b == ev'.who
          IN  /\ config' = config
              /\ b \notin DOMAIN instances' /\ migration' = None
              /\ pc'[b] = "settings" /\ result' = result
              /\ semaphore'.active = None
              /\ \A q \in Batches \ {b} :
                    pc[q] = "waiting" => pc'[q] = "waiting" /\ semaphore'.waiting[1] = q
    /\ \A b \in Batches : pc[b] = "settings" /\ pc'[b] # "settings" =>
          LET i == Len(result[b]) + 1
          IN  /\ ev'.op = "settings" /\ ev'.who = b
              /\ pc'[b] \in {"waiting", "done"}
              /\ Len(result'[b]) >= i
              /\ SubSeq(result'[b], 1, i - 1) = result[b]
              /\ result'[b][i].kind = "settings"
              /\ result'[b][i].scopeUri = items[b][i].scopeUri

C12_UpdateFailureIsContained == [][C12_Step]_vars

\* C12 witness: the write of the user settings succeeded, the write of the folder
\* settings failed, the error was shown, the thunk ended and the other pull is the
\* next the semaphore runs
C12_Witness ==
    /\ ev.op = "update" /\ ev.write = "failed" /\ ev.error
    /\ ev.who = "b1" /\ pc["b1"] = "settings" /\ pc["b2"] = "waiting"
    /\ semaphore = [active |-> None, waiting |-> <<"b2">>]
    /\ config.codeActionsOnSave["global"].patched = "true"
    /\ config.autoFixOnSave["f1"] = "true"
    /\ config.codeActionsOnSave["f1"].patched = "undefined"

-----------------------------------------------------------------------------
(* Migration engine, whole passes: claims *)

\* the store after an update() of m in which every write succeeded
Migrated(cfg, m) == ApplyWrites(cfg, m, 1, Len(PendingWrites(m)), NoCurrent)

\* the store after a fresh Migration for the same resource ran record() and a fully
\* successful update() on cfg
MigratedAfresh(cfg, uri, inspectUndefined) ==
    Migrated(cfg, Record(NewMigration(uri, cfg), cfg, inspectUndefined))

\* the Migration of the command after record(), where the editor answers inspect of
\* an unset section as inspectUndefined says
RecordedWith(inspectUndefined) ==
    Record(NewMigration(ev.recorded.resource, config), config, inspectUndefined)

\* a fresh pass on the store left by the first k writes of m ends where the
\* uninterrupted update() of m ends
Reconverges(m, k, inspectUndefined) ==
    MigratedAfresh(ApplyWrites(config, m, 1, k, NoCurrent), m.resource, inspectUndefined)
        = Migrated(config, m)

\* C13: reconvergence after partial application: when update() failed after its
\* first k writes, a fresh Migration (record(), then update() with every write
\* succeeding) on the store left behind reaches the store an uninterrupted first
\* update() would have produced, per-language opt-outs included
C13_ReconvergesAfterPartialUpdate ==
    ev.op = "migrateSettings" =>
        \A inspectUndefined \in BOOLEAN :
            LET m == RecordedWith(inspectUndefined)
            IN  /\ ev.recorded \in {RecordedWith(TRUE), RecordedWith(FALSE)}
                /\ \A k \in 0..Len(PendingWrites(m)) : Reconverges(m, k, inspectUndefined)

\* C13 (the part that holds): when update() has no per-language slot to write, the
\* fresh Migration reconverges after any number of writes that were applied
C13_ReconvergesWithoutLanguageWrites ==
    ev.op = "migrateSettings" =>
        \A inspectUndefined \in BOOLEAN :
            LET m == RecordedWith(inspectUndefined)
            IN  (\A i \in 1..Len(PendingWrites(m)) : PendingWrites(m)[i].family # "language")
                    => \A k \in 0..Len(PendingWrites(m)) : Reconverges(m, k, inspectUndefined)

-----------------------------------------------------------------------------
(* Configuration pull, the lock: claims *)

\* index of the item whose thunk ran in the step just taken
ThunkItem == Len(result[ev.who]) + 1

\* the items of the same pull handled before that name the same resource
EarlierItemsOfResource ==
    { j \in 1..(ThunkItem - 1) :
        /\ ~IsNullItem(items[ev.who][j])
        /\ items[ev.who][j].scopeUri = items[ev.who][ThunkItem].scopeUri }

\* C14: within one configuration pull the Migration engine (construct and record())
\* runs once per distinct resource: the thunk of an item whose scope uri an earlier
\* item of the pull named constructs no Migration and shows no prompt
C14_OncePerResource ==
    ev.op = "thunk" /\ EarlierItemsOfResource # {} => ~ev.constructed /\ ~ev.prompted

\* ---------------------------------------------------------------------------
\* C15: the settings record of an item is built inside the lock acquisition that
\* ran the migration flow of the item: whenever a pull is between the end of its
\* migration flow and the push of the settings record, it still holds the lock
C15_SettingsBuiltUnderTheLock ==
    \A b \in Batches : pc[b] = "settings" => semaphore.active = b

\* C15, the consequence the claim draws: no thunk of another pull starts while a
\* settings record is still to be built
C15_NoFlowBeforeSettingsBuilt ==
    ev.op = "thunk" => \A b \in Batches \ {ev.who} : pc[b] # "settings"

\* ---------------------------------------------------------------------------
\* editor.codeActionsOnSave of a tier after record() and an update() of the command
\* in which every write succeeded
CodeActionsAfter(t) ==
    Migrated(config, ev.recorded).codeActionsOnSave[SlotOf(t, ev.recorded.resource)]

\* the update() of the command has ended and each of its writes succeeded
CommandUpdateSucceeded ==
    ev.op = "update" /\ ev.who = Command /\ ev.write = "ok" /\ pc[Command] = "idle"

\* C16 as stated: after migration every tier that has not the linter-specific flag
\* explicitly false has the flag present and equal to the truth value of the tier's
\* autoFixOnSave
C16_FlagPresentAndEqualToAutoFix ==
    ev.op = "migrateSettings" =>
        \A t \in TierSet :
            ~(CodeActionsBefore(t).obj /\ CodeActionsBefore(t).patched = "false")
                => /\ CodeActionsAfter(t).obj
                   /\ CodeActionsAfter(t).patched # "undefined"
                   /\ (CodeActionsAfter(t).patched = "true") <=> (AutoFixBefore(t) = "true")

\* C16 amended: after migration a tier whose autoFixOnSave is true, whose generic
\* flag is not true and whose linter-specific flag was absent has the
\* linter-specific flag present and true and the generic flag as before; every other
\* tier has editor.codeActionsOnSave as it was before migration, the
\* linter-specific flag absent where it was absent. The store holds these values at
\* the end of an update() in which every write succeeded
C16_FlagSetWhereRecordConditionMet ==
    /\ ev.op = "migrateSettings" =>
          \A t \in TierSet :
              IF MeetsRecordCondition(t)
              THEN /\ CodeActionsAfter(t).obj
                   /\ CodeActionsAfter(t).patched = "true"
                   /\ CodeActionsAfter(t).fixAll = CodeActionsBefore(t).fixAll
              ELSE CodeActionsAfter(t) = CodeActionsBefore(t)
    /\ CommandUpdateSucceeded =>
          \A t \in TierSet :
              /\ Recorded(t).changed =>
                    /\ CodeActionsBefore(t) = Recorded(t).value
                    /\ CodeActionsBefore(t).patched = "true"
                    /\ AutoFixBefore(t) = "true"
              /\ ~Recorded(t).changed =>
                    CodeActionsBefore(t).patched = Recorded(t).value.patched

\* C16 witness: an update() ended with every write made; it set the flag in one
\* tier, a second tier with autoFixOnSave true has the generic flag on and no
\* linter-specific flag, and a third has the linter-specific flag on although its
\* autoFixOnSave is not true
C16_Witness ==
    /\ CommandUpdateSucceeded
    /\ \E t1, t2, t3 \in TierSet :
          /\ Recorded(t1).changed /\ CodeActionsBefore(t1).patched = "true"
          /\ AutoFixBefore(t2) = "true" /\ CodeActionsBefore(t2).fixAll = "true"
          /\ CodeActionsBefore(t2).patched = "undefined"
          /\ AutoFixBefore(t3) # "true" /\ CodeActionsBefore(t3).patched = "true"
          /\ ~Recorded(t3).changed

\* ---------------------------------------------------------------------------
\* the fixAll recordValidate passes to the record of a tier (lines 604 to 606)
CascadedFixAll(t) ==
    LET fixAll == FixAllOf(NewMigration(ev.recorded.resource, config))
    IN  CASE t = "global"          -> fixAll["global"]
          [] t = "workspace"       -> fixAll["workspace"] \/ fixAll["global"]
          [] t = "workspaceFolder" ->
                fixAll["workspaceFolder"] \/ fixAll["workspace"] \/ fixAll["global"]

\* record() computed a per-language opt-out in tier t: the tier's validate list has
\* an {language, autoFix: false} entry, the cascaded fixAll is on, and the tier of
\* the language's section has not the linter-specific flag false already
LanguageOptOutComputed(t) ==
    LET slot == SlotOf(t, ev.recorded.resource)
        list == config.validate[slot]
    IN  /\ list.isArray
        /\ CascadedFixAll(t)
        /\ \E i \in 1..Len(list.items) :
              /\ ~list.items[i].isString /\ list.items[i].autoFix = "false"
              /\ config.language[list.items[i].language][slot].caos.patched # "false"

\* an element of the four MigrationData of the instance has changed = true
BaseElementChanged ==
    \/ MigrationDataNeedsUpdate(ev.recorded.autoFixOnSave)
    \/ MigrationDataNeedsUpdate(ev.recorded.validate)
    \/ MigrationDataNeedsUpdate(ev.recorded.codeActionOnSave)
    \/ MigrationDataNeedsUpdate(ev.recorded.workingDirectories)

\* C17: needsUpdate() is true exactly when an element that record() created or
\* touched has changed = true, the per-language elements record() looked up or
\* created included: a per-language opt-out that record() computed makes
\* needsUpdate() true, also when no slot of the store sets the language's section
C17_NeedsUpdateSeesEveryChange ==
    ev.op = "migrateSettings" =>
        (NeedsUpdate(ev.recorded)
            <=> (BaseElementChanged \/ \E t \in TierSet : LanguageOptOutComputed(t)))

\* C17 (the part that holds): when the editor answers inspect of the language's
\* section with an object, every opt-out record() computed is seen by needsUpdate()
C17_NeedsUpdateSeesEveryChangeWhenInspectAnswers ==
    ev.op = "migrateSettings" /\ ev.recorded = RecordedWith(FALSE) =>
        (NeedsUpdate(ev.recorded)
            <=> (BaseElementChanged \/ \E t \in TierSet : LanguageOptOutComputed(t)))

\* ---------------------------------------------------------------------------
\* C18: every configuration change of the workspace and every watched-file change
\* empties probeFailed, a 'probe failed' request adds its uri and removes nothing,
\* and no other step changes the set: between two resets it only grows
C18_Step ==
    /\ ev'.op \in {"didChangeConfiguration", "didChangeWatchedFile"} => probeFailed' = {}
    /\ config' # config => probeFailed' = {}
    /\ ev'.op = "probeFailed" => probeFailed' = probeFailed \cup {ev'.who}
    /\ probeFailed' # probeFailed =>
          \/ ev'.op = "probeFailed"
          \/ ev'.op = "didChangeWatchedFile"
          \/ config' # config
    /\ ~(probeFailed \subseteq probeFailed') => probeFailed' = {}

C18_ProbeFailedGrowsUntilReset == [][C18_Step]_vars

\* C18 witness: a watched-file change has just emptied a set that two 'probe failed'
\* requests had filled since the last configuration change
C18_Witness ==
    /\ ev.op = "didChangeWatchedFile"
    /\ probeFailed = {}
    /\ Cardinality(probeHistory.sinceConfig) >= 2

\* ---------------------------------------------------------------------------
\* the synchronized document of the item the settings record was built for
SyncedDocument == CHOOSE d \in syncedDocuments : d.uri = BuiltSettings.scopeUri

\* the record of an item whose document is not synchronized
UnsyncedSettings ==
    /\ BuiltSettings.validate = "off"
    /\ BuiltSettings.format = FALSE
    /\ BuiltSettings.codeActionOnSave = FALSE
    /\ BuiltSettings.workspaceFolder = None
    /\ BuiltSettings.workingDirectory = NoWorkingDirectory

\* format and codeActionOnSave.enable are filled only when validate is not off
FilledOnlyWhenValidated ==
    BuiltSettings.validate = "off" =>
        BuiltSettings.format = FALSE /\ BuiltSettings.codeActionOnSave = FALSE

\* C19: the settings record of an item whose scope URI is no synchronized document
\* has validate off, format false, codeActionOnSave.enable false and neither
\* workspaceFolder nor workingDirectory; for a synchronized document validate equals
\* computeValidate(document) and format and codeActionOnSave.enable are filled only
\* when that outcome is not off
C19_SettingsFollowTheGate ==
    SettingsBuilt =>
        IF ~IsSynced(BuiltSettings.scopeUri)
        THEN UnsyncedSettings
        ELSE /\ BuiltSettings.validate = computeValidate(SyncedDocument, config, probeFailed)
             /\ FilledOnlyWhenValidated

\* C19 (the part that holds): the same with validate equal to the gate's outcome
\* unless the key 'enabled' of the configuration is false, in which case it is off
C19_SettingsFollowTheGateUnlessEnabledIsFalse ==
    SettingsBuilt =>
        IF ~IsSynced(BuiltSettings.scopeUri)
        THEN UnsyncedSettings
        ELSE /\ BuiltSettings.validate =
                    IF GetTri(config, "enabled", BuiltSettings.scopeUri) = "false"
                    THEN "off"
                    ELSE computeValidate(SyncedDocument, config, probeFailed)
             /\ FilledOnlyWhenValidated

\* ---------------------------------------------------------------------------
\* the boolean recordAutoFixOnSave returned for tier t in the step that ran record()
CascadeInput(t) == FixAllOf(NewMigration(ev.recorded.resource, config))[t]

\* linterSpecificFlag ?? genericFixAll of the tier after the rewrite step
FlagOrGeneric(t) ==
    IF Recorded(t).value.patched # "undefined"
    THEN Recorded(t).value.patched = "true"
    ELSE Recorded(t).value.fixAll = "true"

\* C20: the boolean recordAutoFixOnSave returns for a tier is the tier's
\* linter-specific flag when the flag is set after the rewrite step and the generic
\* fix-all flag otherwise; a tier whose linter-specific flag was true before
\* migration yields true
C20_CascadeInputIsFlagOrGeneric ==
    ev.op = "migrateSettings" =>
        \A t \in TierSet :
            /\ CascadeInput(t) = FlagOrGeneric(t)
            /\ CodeActionsBefore(t).patched = "true" => CascadeInput(t)

\* C20 (the part that holds): the two agree in every tier whose linter-specific
\* flag was not true before migration
C20_CascadeInputUnlessFlagWasTrue ==
    ev.op = "migrateSettings" =>
        \A t \in TierSet :
            CodeActionsBefore(t).patched # "true" => CascadeInput(t) = FlagOrGeneric(t)

\* ---------------------------------------------------------------------------
\* the fixAll input recordValidate used for the validate list of tier t in the step
\* that ran record()
CascadeUsed(t) == CascadeFixAll(FixAllOf(NewMigration(ev.recorded.resource, config)), t)

\* the per-language element of tier t the instance keeps for a language: its value
\* and changed flag, the store's value unchanged when the instance keeps none
LanguageElement(language, t) ==
    LET lss == ev.recorded.languageSpecificSettings
        i == LanguageIndex(lss, language)
    IN  IF i = 0
        THEN [ value   |-> config.language[language][SlotOf(t, ev.recorded.resource)].caos,
               changed |-> FALSE,
               rewrites |-> 0 ]
        ELSE lss[i].data[t]

\* the validate list of tier t has an {language, autoFix: false} entry
HasOptOutEntry(t, language) ==
    LET list == config.validate[SlotOf(t, ev.recorded.resource)]
    IN  /\ list.isArray
        /\ \E i \in 1..Len(list.items) :
              /\ ~list.items[i].isString
              /\ list.items[i].language = language
              /\ list.items[i].autoFix = "false"

\* C21: tier inheritance of the cascade: the input for the workspace validate list
\* is the workspace tier's own result if true and the global tier's result
\* otherwise, the input for the workspace-folder list is the folder's own result if
\* true and the workspace input otherwise; a workspace tier without autoFixOnSave
\* and without code-action flags takes the global tier's result, and an inherited
\* input makes record() compute the per-language opt-outs of the inheriting tier
C21_CascadeInheritsFromOuterTier ==
    ev.op = "migrateSettings" =>
        /\ CascadeUsed("global") = CascadeInput("global")
        /\ CascadeUsed("workspace") =
              IF CascadeInput("workspace") THEN TRUE ELSE CascadeInput("global")
        /\ CascadeUsed("workspaceFolder") =
              IF CascadeInput("workspaceFolder") THEN TRUE ELSE CascadeUsed("workspace")
        /\ AutoFixBefore("workspace") = "undefined" /\ NeitherFlagSet("workspace")
              => CascadeUsed("workspace") = CascadeInput("global")
        /\ ev.recorded = RecordedWith(FALSE) =>
              \A t \in {"workspace", "workspaceFolder"} :
                  /\ ~CascadeInput(t)
                  /\ CascadeInput("global")
                  /\ HasOptOutEntry(t, "javascript")
                  => LanguageElement("javascript", t).value.patched = "false"

\* C21 witness: record() ran with the global tier's result true and the workspace
\* and folder tiers' own results false; the folder's validate list has an
\* autoFix: false entry and its per-language flag was changed to false
C21_Witness ==
    /\ ev.op = "migrateSettings"
    /\ CascadeInput("global")
    /\ ~CascadeInput("workspace") /\ ~CascadeInput("workspaceFolder")
    /\ AutoFixBefore("workspace") = "undefined" /\ NeitherFlagSet("workspace")
    /\ HasOptOutEntry("workspaceFolder", "javascript")
    /\ LanguageElement("javascript", "workspaceFolder").changed
    /\ LanguageElement("javascript", "workspaceFolder").value.patched = "false"

\* ---------------------------------------------------------------------------
\* the linter-specific flag of a language's section in tier t before record()
LanguageFlagBefore(language, t) ==
    config.language[language][SlotOf(t, ev.recorded.resource)].caos.patched

\* the per-language outcome of record() for one language and tier: an opt-out entry
\* under a cascaded input that is on turns the flag false, changed exactly when it
\* was not false before; anything else leaves the element alone
PerLanguageOutcome(language, t) ==
    IF CascadeUsed(t) /\ HasOptOutEntry(t, language)
    THEN /\ LanguageElement(language, t).value.patched = "false"
         /\ LanguageElement(language, t).changed <=> LanguageFlagBefore(language, t) # "false"
    ELSE /\ ~LanguageElement(language, t).changed
         /\ LanguageElement(language, t).value.patched = LanguageFlagBefore(language, t)

\* C22: per-language opt-out: for every tier and every {language, autoFix: false}
\* entry of the tier's validate list, if the cascaded input of the tier is true the
\* language's linter-specific flag of that tier is false after record(), with
\* changed = true iff it was not false already; bare strings, entries with autoFix
\* true or unset and tiers whose cascaded input is false change nothing
C22_PerLanguageOptOut ==
    ev.op = "migrateSettings" =>
        \A language \in Languages : \A t \in TierSet : PerLanguageOutcome(language, t)

\* C22 (the part that holds): the same when the editor answers inspect of the
\* language's section with an object
C22_PerLanguageOptOutWhenInspectAnswers ==
    ev.op = "migrateSettings" /\ ev.recorded = RecordedWith(FALSE) =>
        \A language \in Languages : \A t \in TierSet : PerLanguageOutcome(language, t)

\* ---------------------------------------------------------------------------
\* the elements the instance holds after record(), each with the value the
\* constructor read for it from the store
ElementsWithSnapshot ==
    LET res == ev.recorded.resource
        lss == ev.recorded.languageSpecificSettings
    IN  { [elem |-> ev.recorded.codeActionOnSave[t],
           snapshot |-> config.codeActionsOnSave[SlotOf(t, res)]] : t \in TierSet }
        \cup
        { [elem |-> lss[i].data[t],
           snapshot |-> config.language[lss[i].language][SlotOf(t, res)].caos] :
             i \in 1..Len(lss), t \in TierSet }

\* the elements of patched.autoFixOnSave and of patched.validate
AutoFixElementsWithSnapshot ==
    { [elem |-> ev.recorded.autoFixOnSave[t],
       snapshot |-> config.autoFixOnSave[SlotOf(t, ev.recorded.resource)]] : t \in TierSet }
ValidateElementsWithSnapshot ==
    { [elem |-> ev.recorded.validate[t],
       snapshot |-> config.validate[SlotOf(t, ev.recorded.resource)]] : t \in TierSet }

\* every element of a Migration just constructed has changed = false
StartsUnchanged ==
    LET m == NewMigration(ev.recorded.resource, config)
    IN  \A t \in TierSet :
            /\ ~m.codeActionOnSave[t].changed
            /\ ~m.autoFixOnSave[t].changed
            /\ ~m.validate[t].changed

\* C23 as stated: changed starts false, after record() it is true exactly when the
\* element's value differs from the value read at construction, and no element is
\* rewritten twice
C23_ChangedIffValueDiffers ==
    ev.op = "migrateSettings" =>
        /\ StartsUnchanged
        /\ \A e \in ElementsWithSnapshot :
              /\ e.elem.changed <=> e.elem.value # e.snapshot
              /\ e.elem.rewrites <= 1
        /\ \A e \in AutoFixElementsWithSnapshot :
              /\ e.elem.changed <=> e.elem.value # e.snapshot
              /\ e.elem.rewrites <= 1
        /\ \A e \in ValidateElementsWithSnapshot :
              /\ e.elem.changed <=> e.elem.value # e.snapshot
              /\ e.elem.rewrites <= 1

\* C23 amended: changed starts false; after record() changed is true exactly when
\* record() set the linter-specific flag of the element, which it does at most once
\* per element and pass (also with a language named by several entries) and which
\* leaves the flag different from the one read at construction; an element that is
\* not changed has the value read at construction, except that a code-action map
\* that was no object is replaced by an empty object without changed being set
C23_ChangedIffFlagRewritten ==
    ev.op = "migrateSettings" =>
        /\ StartsUnchanged
        /\ \A e \in ElementsWithSnapshot :
              /\ e.elem.rewrites <= 1
              /\ e.elem.changed <=> e.elem.rewrites = 1
              /\ e.elem.changed <=> e.elem.value.patched # e.snapshot.patched
              /\ e.elem.value.fixAll = e.snapshot.fixAll
              /\ ~e.elem.changed =>
                    \/ e.elem.value = e.snapshot
                    \/ ~e.snapshot.obj /\ e.elem.value = EmptyObject
        /\ \A e \in AutoFixElementsWithSnapshot :
              ~e.elem.changed /\ e.elem.rewrites = 0 /\ e.elem.value = e.snapshot
        /\ \A e \in ValidateElementsWithSnapshot :
              ~e.elem.changed /\ e.elem.rewrites = 0 /\ e.elem.value = e.snapshot

\* C23 witness: record() replaced the undefined code-action map of a tier by an
\* empty object without marking it, and set the per-language flag of a tier once
\* although the tier's validate list names the language in two opt-out entries
C23_Witness ==
    /\ ev.op = "migrateSettings"
    /\ \E t \in TierSet :
          /\ ~CodeActionsBefore(t).obj
          /\ Recorded(t).value = EmptyObject /\ ~Recorded(t).changed
    /\ \E t \in TierSet :
          /\ CascadeUsed(t)
          /\ Len(config.validate[SlotOf(t, ev.recorded.resource)].items) = 4
          /\ LanguageElement("javascript", t).changed
          /\ LanguageElement("javascript", t).rewrites = 1

\* ---------------------------------------------------------------------------
\* the place of a write in the order the claim gives: the family, then the language
\* (in the order of languageSpecificSettings), then the tier
FamilyRank(family) ==
    CASE family = "codeActionsOnSave"  -> 1
      [] family = "autoFixOnSave"      -> 2
      [] family = "validate"           -> 3
      [] family = "workingDirectories" -> 4
      [] family = "language"           -> 5
TierRank(tier) ==
    CASE tier = "global" -> 1 [] tier = "workspace" -> 2 [] tier = "workspaceFolder" -> 3
WriteRank(family, index, tier) == 100 * FamilyRank(family) + 10 * index + TierRank(tier)

\* the calls update() makes for the instance are in the claimed order, and its
\* writes are the calls whose element is changed, in that order
CallsInOrder ==
    ev.op = "migrateSettings" =>
        LET calls == UpdateCalls(ev.recorded)
            writes == PendingWrites(ev.recorded)
        IN  /\ Len(calls) = 12 + 3 * Len(ev.recorded.languageSpecificSettings)
            /\ \A i, j \in 1..Len(calls) :
                  i < j => WriteRank(calls[i].family, calls[i].index, calls[i].tier)
                              < WriteRank(calls[j].family, calls[j].index, calls[j].tier)
            /\ \A i \in 1..Len(writes) : CallChanged(ev.recorded, writes[i])
            /\ \A i, j \in 1..Len(writes) :
                  i < j => WriteRank(writes[i].family, writes[i].index, writes[i].tier)
                              < WriteRank(writes[j].family, writes[j].index, writes[j].tier)

\* a write is for a changed element; the next write of the same update() comes
\* after the previous one succeeded and is later in the order; a rejected write is
\* the last of its update()
C24_Step ==
    /\ ev'.op = "update" =>
          CallChanged(ev'.recorded, [family |-> ev'.key, tier |-> ev'.tier, index |-> ev'.index])
    /\ ev.op = "update" /\ ev'.op = "update" /\ ev'.who = ev.who /\ pc[ev.who] = "update" =>
          /\ ev.write = "ok"
          /\ WriteRank(ev.key, ev.index, ev.tier) < WriteRank(ev'.key, ev'.index, ev'.tier)
    /\ ev'.op = "update" /\ ev'.write = "failed" => pc'[ev'.who] # "update"

\* C24: update() issues its store writes in a fixed order: the families
\* code-action-on-save, auto-fix-on-save, validate, working-directories, then the
\* per-language slots, and within each family and language global, workspace,
\* workspace-folder; a write starts only after the previous one has resolved, and a
\* tier is written only if its element has changed = true
C24_WritesInFixedOrder == [](CallsInOrder) /\ [][C24_Step]_vars

\* C24 witness: an update() has just made its last write, the folder slot of a
\* language, after writing the user's code-action map and the workspace slot of the
\* language
C24_Witness ==
    /\ ev.op = "update" /\ ev.write = "ok" /\ pc[ev.who] # "update"
    /\ ev.key = "language" /\ ev.tier = "workspaceFolder"
    /\ ev.recorded.codeActionOnSave["global"].changed
    /\ ev.recorded.languageSpecificSettings[ev.index].data["workspace"].changed

\* ---------------------------------------------------------------------------
\* a fresh Migration for the resource on the store cfg needs an update after record()
FreshNeedsUpdate(cfg, uri, inspectUndefined) ==
    NeedsUpdate(Record(NewMigration(uri, cfg), cfg, inspectUndefined))

\* C25: migration is idempotent once applied: after record() and an update() in
\* which every write succeeded, a fresh Migration for the same resource on the
\* resulting store has needsUpdate() = false after record(), so that a second
\* update() has nothing to write (the editor answering inspect of an unset section
\* in both passes the same way)
C25_NothingLeftAfterMigration ==
    /\ ev.op = "migrateSettings" =>
          \A inspectUndefined \in BOOLEAN :
              LET m == RecordedWith(inspectUndefined)
                  after == Migrated(config, m)
                  again == Record(NewMigration(m.resource, after), after, inspectUndefined)
              IN  /\ ~NeedsUpdate(again)
                  /\ PendingWrites(again) = <<>>
    /\ CommandUpdateSucceeded =>
          ~FreshNeedsUpdate(config, ev.recorded.resource, TRUE)

\* C25 witness: an update() that wrote a code-action map and a per-language slot
\* has ended with every write made
C25_Witness ==
    /\ CommandUpdateSucceeded
    /\ \E t \in TierSet : ev.recorded.codeActionOnSave[t].changed
    /\ ev.key = "language"
    /\ config.language["javascript"][SlotOf(ev.tier, ev.recorded.resource)].caos.patched
          = "false"

\* ---------------------------------------------------------------------------
LegacyKeys == {"autoFixOnSave", "validate", "workingDirectories"}

\* the elements of the legacy keys are unchanged in the instance of the step
LegacyElementsUnchanged ==
    ev.op \in {"migrateSettings", "update"} =>
        \A t \in TierSet :
            /\ ~ev.recorded.autoFixOnSave[t].changed
            /\ ~ev.recorded.validate[t].changed
            /\ ~ev.recorded.workingDirectories[t].changed
            /\ \A i \in 1..Len(PendingWrites(ev.recorded)) :
                  PendingWrites(ev.recorded)[i].family \notin LegacyKeys

\* no write of update() is for a legacy key, and no step of a migration changes the
\* stored value of one
C26_Step ==
    /\ ev'.op = "update" => ev'.key \notin LegacyKeys
    /\ ev'.op \in {"migrateSettings", "update"} =>
          /\ config'.autoFixOnSave = config.autoFixOnSave
          /\ config'.validate = config.validate
          /\ config'.workingDirectories = config.workingDirectories

\* C26: the legacy keys are never rewritten: record() leaves changed = false on the
\* three tiers of autoFixOnSave, validate and workingDirectories (the detection of
\* working directories does nothing), update() never writes one of these keys and
\* their stored values are as before after any migration
C26_LegacyKeysNeverRewritten == [](LegacyElementsUnchanged) /\ [][C26_Step]_vars

\* C26 witness: an update() ended with every write made for a resource whose
\* autoFixOnSave is true, whose validate list has an autoFix: false entry and
\* whose workingDirectories list holds a legacy entry; the three keys are as before
C26_Witness ==
    /\ CommandUpdateSucceeded
    /\ config.autoFixOnSave["global"] = "true"
    /\ HasOptOutEntry("workspace", "javascript")
    /\ config.workingDirectories["workspace"].isArray
    /\ config.workingDirectories["workspace"].items[1].kind = "legacy"
    /\ ev.recorded.workingDirectories["workspace"].value
          = config.workingDirectories["workspace"]

\* ---------------------------------------------------------------------------
(* Working directory of the settings record: claims *)

\* the workingDirectories list in effect for the item of the settings record
BuiltList == GetArray(config, "workingDirectories", BuiltSettings.scopeUri)

\* the settings record is for a synchronized document and a list is configured
ResolvedFromList == SettingsBuilt /\ IsSynced(BuiltSettings.scopeUri) /\ BuiltList.isArray

\* the directory entry i of the list matches the document with
MatchOf(i) ==
    IF BuiltList.items[i].kind = "mode"
    THEN <<>>
    ELSE ItemValue(BuiltList.items[i], FsPath(BuiltSettings.scopeUri),
                   FolderPath(FolderOf(BuiltSettings.scopeUri)))

\* the positions from `from` on whose entry matches with the longest match of those
LongestMatches(from) ==
    { i \in from..Len(BuiltList.items) :
        /\ MatchOf(i) # <<>>
        /\ \A j \in from..Len(BuiltList.items) : Len(MatchOf(j)) <= Len(MatchOf(i)) }

Least(S) == CHOOSE i \in S : \A j \in S : i <= j
Greatest(S) == CHOOSE i \in S : \A j \in S : j <= i

\* the position after the last mode entry of the list, 1 when it has none
AfterLastMode ==
    LET modes == {i \in 1..Len(BuiltList.items) : BuiltList.items[i].kind = "mode"}
    IN  IF modes = {} THEN 1 ELSE Greatest(modes) + 1

\* C27 as stated: when two directory entries match the document with equal matched
\* length, the one met last in the scan wins: the resolved '!cwd' flag is that of
\* the last of the longest matches
C27_LastOfEqualMatchesWins ==
    ResolvedFromList /\ DirectoriesOnly(BuiltList.items) /\ LongestMatches(1) # {} =>
        /\ BuiltSettings.workingDirectory.directory = MatchOf(Greatest(LongestMatches(1)))
        /\ BuiltSettings.workingDirectory.noCWD
              = NoCWDOf(BuiltList.items[Greatest(LongestMatches(1))])

\* C27 amended: among the directory entries after the last mode entry of the list,
\* the first of those that match the document with the longest matched length wins:
\* the resolved directory and '!cwd' flag are those of that entry, an equally long
\* match met later changes nothing
C27_FirstOfEqualMatchesWins ==
    ResolvedFromList /\ LongestMatches(AfterLastMode) # {} =>
        LET first == Least(LongestMatches(AfterLastMode))
        IN  /\ BuiltSettings.workingDirectory.kind = "directory"
            /\ BuiltSettings.workingDirectory.directory = MatchOf(first)
            /\ BuiltSettings.workingDirectory.noCWD = NoCWDOf(BuiltList.items[first])

\* C27 witness: the list ["/a", {directory: "/a", '!cwd': true}] resolved for
\* /a/b/c to /a/ with the flag of the string entry
C27_Witness ==
    /\ ResolvedFromList
    /\ BuiltSettings.scopeUri = "u1"
    /\ BuiltList.items = <<StringEntry(<<"/", "a">>), DirectoryEntry(<<"/", "a">>, "true")>>
    /\ BuiltSettings.workingDirectory
          = [kind |-> "directory", directory |-> <<"/", "a", "/">>, noCWD |-> FALSE]

\* ---------------------------------------------------------------------------
HasModeEntry == \E i \in 1..Len(BuiltList.items) : BuiltList.items[i].kind = "mode"

\* C28: with a mode entry and a directory entry that matches the document in the
\* list, the resolved working directory is the longest matching directory entry,
\* whether the mode entry stands before or after it; the mode entry is the result
\* only when no directory entry matches
C28_ModeOnlyWhenNothingMatches ==
    ResolvedFromList /\ HasModeEntry =>
        IF LongestMatches(1) # {}
        THEN /\ BuiltSettings.workingDirectory.kind = "directory"
             /\ BuiltSettings.workingDirectory.directory = MatchOf(Least(LongestMatches(1)))
        ELSE BuiltSettings.workingDirectory = ModeWorkingDirectory

\* C28 (the part that holds): the same for the entries after the last mode entry:
\* a match before it is forgotten
C28_ModeOnlyWhenNothingMatchesAfterIt ==
    ResolvedFromList /\ HasModeEntry =>
        IF LongestMatches(AfterLastMode) # {}
        THEN /\ BuiltSettings.workingDirectory.kind = "directory"
             /\ BuiltSettings.workingDirectory.directory
                   = MatchOf(Least(LongestMatches(AfterLastMode)))
        ELSE BuiltSettings.workingDirectory = ModeWorkingDirectory

\* ---------------------------------------------------------------------------
(* Code actions on save of the settings record: claims *)

\* the code-action map of the [languageId] section in effect for the document of
\* the settings record, and the editor-wide map in effect for it
LanguageMap ==
    LET section == GetSection(config, SyncedDocument.languageId, SyncedDocument.uri)
    IN  IF SyncedDocument.languageId \in Languages /\ section.defined
        THEN section.caos
        ELSE Undefined
EditorMap == GetCodeActionsOnSave(config, SyncedDocument.uri)

\* a map sets a flag; the value a map yields: the linter-specific flag when the map
\* sets it, the generic flag otherwise
SetsAFlag(map) == map.obj /\ (map.patched # "undefined" \/ map.fixAll # "undefined")
YieldOf(map) == IF map.patched # "undefined" THEN map.patched = "true" ELSE map.fixAll = "true"

\* the settings record is for a synchronized document that is validated
BuiltForValidated ==
    SettingsBuilt /\ IsSynced(BuiltSettings.scopeUri) /\ BuiltSettings.validate # "off"

\* C29: the code-action-on-save enablement sent to the server comes from the
\* document's per-language map when that map yields a value and from the
\* editor-wide map only otherwise; within the map used the linter-specific flag
\* takes precedence over the generic one (a per-language linter-specific false
\* beats an editor-wide true), and the result is false when neither map sets a flag
C29_PerLanguageMapFirst ==
    BuiltForValidated =>
        /\ BuiltSettings.codeActionOnSave =
              IF SetsAFlag(LanguageMap) THEN YieldOf(LanguageMap)
              ELSE IF SetsAFlag(EditorMap) THEN YieldOf(EditorMap)
              ELSE FALSE
        /\ LanguageMap.obj /\ LanguageMap.patched = "false"
              => ~BuiltSettings.codeActionOnSave

\* C29 witness: the per-language map has the linter-specific flag false and the
\* generic flag true, the editor-wide map yields true, and the record says false
C29_Witness ==
    /\ BuiltForValidated
    /\ LanguageMap = [obj |-> TRUE, fixAll |-> "true", patched |-> "false"]
    /\ EditorMap = [obj |-> TRUE, fixAll |-> "false", patched |-> "true"]
    /\ ~BuiltSettings.codeActionOnSave



-----------------------------------------------------------------------------
(* C30 *)

\* the step is a successful config.update of a per-language slot by update()
LanguageWriteStep ==
    /\ ev'.op = "update"
    /\ ev'.key = "language"
    /\ ev'.write = "ok"

\* the slot of the store that the language write of the step addresses, before
\* the step and after it
SlotBeforeWrite ==
    LET entry == instances[ev'.who].languageSpecificSettings[ev'.index]
    IN  config.language[entry.language][SlotOf(ev'.tier, instances[ev'.who].resource)]

SlotAfterWrite ==
    LET entry == instances[ev'.who].languageSpecificSettings[ev'.index]
    IN  config'.language[entry.language][SlotOf(ev'.tier, instances[ev'.who].resource)]

\* the map that record() computed for the slot of the language write of the step
RecordedForWrite ==
    instances[ev'.who].languageSpecificSettings[ev'.index].data[ev'.tier].value

\* the slot was not edited after update() read it for the language of the write
NotEditedSinceRead == upd[ev'.who].current.value[ev'.tier] = SlotBeforeWrite

C30_Step ==
    (LanguageWriteStep /\ NotEditedSinceRead) =>
        /\ SlotAfterWrite.other = SlotBeforeWrite.other
        /\ SlotAfterWrite.caos = RecordedForWrite
        /\ SlotAfterWrite.defined

\* C30: a write of a per-language slot by update() keeps the other key of the slot
\* as the store holds it when update() reads the slot, so an edit of that key made
\* after record() and before update() survives the write, and only the embedded
\* 'editor.codeActionsOnSave' map is replaced by the map that record() computed
C30_ExternalEditSurvivesLanguageWrite == [][C30_Step]_vars

\* update() has written the [javascript] slot of the folder, which had no other
\* key when record() ran, and the key set by the user meanwhile is in the store
\* next to the recorded map
C30_Witness ==
    /\ ev.op = "update"
    /\ ev.key = "language"
    /\ ev.tier = "workspaceFolder"
    /\ ev.write = "ok"
    /\ edits = 1
    /\ config.language["javascript"]["f1"].other = "set"
    /\ config.language["javascript"]["f1"].caos.patched = "false"


-----------------------------------------------------------------------------
(* C31 *)

DocumentOf(u) == CHOOSE d \in Documents : d.uri = u

\* middleware.didOpen has run: the document is synchronized exactly when it matches
\* a file filter or its gate outcome is not off
OpenFollowsGate ==
    ev'.op = "didOpen" =>
        LET d == DocumentOf(ev'.who)
        IN  d \in syncedDocuments' <=>
                (MatchesFileFilter(d) \/ computeValidate(d, config, probeFailed) # "off")

\* middleware.didClose has run: the document is not synchronized any more
CloseRemoves ==
    ev'.op = "didClose" => DocumentOf(ev'.who) \notin syncedDocuments'

\* after a configuration change every open document whose outcome is not off is
\* synchronized, and a document was removed only if its outcome is off
ChangeFollowsGate ==
    ev'.op = "didChangeConfiguration" =>
        /\ \A d \in textDocuments :
              computeValidate(d, config', probeFailed') # "off" => d \in syncedDocuments'
        /\ \A d \in syncedDocuments \ syncedDocuments' :
              computeValidate(d, config', probeFailed') = "off"

\* after a configuration change the documents synchronized for their file name
\* are still synchronized
ChangeKeepsFileMatches ==
    ev'.op = "didChangeConfiguration" =>
        \A d \in syncedDocuments : MatchesFileFilter(d) => d \in syncedDocuments'

C31_Step == OpenFollowsGate /\ CloseRemoves /\ ChangeFollowsGate /\ ChangeKeepsFileMatches

\* C31: a document is synchronized on open exactly when it matches package.json or
\* a config-file pattern or its gate outcome is not off, it leaves the set when it
\* closes, and a configuration change keeps every synchronized document that
\* matches a file pattern, removes only documents whose outcome is off and
\* synchronizes every open document whose outcome is not off
C31_SynchronizationFollowsTheGate == [][C31_Step]_vars

C31_StepButFileMatches == OpenFollowsGate /\ CloseRemoves /\ ChangeFollowsGate

\* the same without the documents synchronized for their file name
C31_SynchronizationFollowsTheGateButFileMatches == [][C31_StepButFileMatches]_vars


-----------------------------------------------------------------------------
(* C32 *)

\* the server has every document open at most once and never closed more often
\* than opened: no didClose for a document it has not open, no second didOpen
ServerPairsOpenAndClose == \A u \in Uris : serverDocuments[u] \in {0, 1}

\* a didChange, willSave, didSave or code action request is passed on only for a
\* document that is synchronized, which the server has open
C32_Step ==
    (ev'.op \in DocumentMessages /\ ev'.sent) =>
        /\ DocumentOf(ev'.who) \in syncedDocuments
        /\ serverDocuments[ev'.who] = 1

\* C32: over document open, change, save, close, configuration change and probe
\* failed events the client passes didChange, willSave, didSave and code action
\* requests on only for a synchronized document, sends didClose only for a
\* document the server has open and never sends a second didOpen for a document
\* the server has open
C32_OpenClosePairing == [](ServerPairsOpenAndClose) /\ [][C32_Step]_vars

\* a code action request for u1 is passed on while the server has u1 open, the
\* package.json u3 is open in the editor and was closed on the server by a
\* configuration change
C32_Witness ==
    /\ ev.op = "provideCodeActions"
    /\ ev.who = "u1"
    /\ ev.sent
    /\ serverDocuments["u1"] = 1
    /\ DocumentOf("u3") \in textDocuments
    /\ serverDocuments["u3"] = 0


-----------------------------------------------------------------------------
(* C33 *)

\* the store was changed in the step just taken, so that a configuration-changed
\* notification without sections reached middleware.workspace.didChangeConfiguration
NotificationReached == ev.write = "ok"

\* a configuration-changed notification was sent to the server in the step just
\* taken: next(sections) was called by the middleware or by the continuation
NotificationForwarded == ev.forwarded > 0

\* C33: every configuration-changed notification that reaches the
\* didChangeConfiguration middleware is eventually forwarded to the server, also
\* when a Migration exists and update() is not called afterwards
C33_NoNotificationLost == NotificationReached ~> NotificationForwarded

\* a notification that reached the middleware while update() runs, raised by a
\* write of update() or by an edit of the user, is forwarded
C33_ForwardedWhenUpdateRuns ==
    (NotificationReached /\ pc["b1"] = "update") ~> NotificationForwarded


-----------------------------------------------------------------------------
(* C34 *)

\* the entries languageSpecificSettings holds for a language after record()
EntriesOf(language) ==
    {i \in 1..Len(ev.recorded.languageSpecificSettings) :
        ev.recorded.languageSpecificSettings[i].language = language}

\* the tiers in which record() looked the language up: the tier's validate list
\* has an opt-out entry for it and the cascaded input of the tier is on
LookedUpIn(language) ==
    {t \in TierSet : CascadeUsed(t) /\ HasOptOutEntry(t, language)}

\* one cached MigrationData per language looked up, none for a language never
\* looked up, and the flag of every tier that looked it up set in that one entry
CachedByLanguage(language) ==
    IF LookedUpIn(language) = {}
    THEN EntriesOf(language) = {}
    ELSE /\ Cardinality(EntriesOf(language)) = 1
         /\ \A i \in EntriesOf(language) : \A t \in LookedUpIn(language) :
               ev.recorded.languageSpecificSettings[i].data[t].value.patched = "false"

\* C34: within one Migration the MigrationData of a language is created on the
\* first lookup of the language id and cached, every later lookup of the same
\* record() pass gets the same object, and the changes recorded for the tiers of
\* one language are all found in a single entry of languageSpecificSettings
C34_OneCachedEntryPerLanguage ==
    ev.op = "migrateSettings" => \A language \in Languages : CachedByLanguage(language)

\* C34 (the part that holds): the same when the editor answers inspect of the
\* language's section with an object
C34_OneCachedEntryWhenInspectAnswers ==
    ev.op = "migrateSettings" /\ ev.recorded = RecordedWith(FALSE) =>
        \A language \in Languages : CachedByLanguage(language)

=============================================================================
